---- MODULE Spec2Model ----
(***************************************************************************)
(* worktree-tui: the worktree aggregation and refresh pipeline.            *)
(*                                                                         *)
(* The model follows src/src/main.rs (App, run_app, the key handlers,      *)
(* spawn_refresh_task, fetch_all_worktrees) and src/src/cache.rs.          *)
(* The render/input loop is one process: every arm of its select! is one   *)
(* action.  Background fetches, the clock and the repository on disk are   *)
(* the environment.                                                        *)
(*                                                                         *)
(* Text is modelled as sequences of one-character strings, so that         *)
(* lower-casing, substring search and lexicographic comparison are         *)
(* computed and not assumed.  A record holds its path, branch and commit   *)
(* message as small integers (ids) that PathStr, BranchName and MsgStr     *)
(* turn into text; 0 is None (branch, commit_time) or the empty message.   *)
(* Not modelled: spinner_frame, list_area, show_recent_commits,            *)
(* last_refresh and the recent_commits text, which only the painting       *)
(* routines read.                                                          *)
(***************************************************************************)
EXTENDS Integers, Sequences, FiniteSets, TLC

\* ------------------------------------------------------------------------
\* Bounds of the model
\* ------------------------------------------------------------------------

\* background fetches scheduled in one run
MaxFetches == 2

\* changes made to the repository on disk in one run (mutations included)
MaxChanges == 1

\* the longest search query typed
MaxQuery == 3

\* ------------------------------------------------------------------------
\* Program constants
\* ------------------------------------------------------------------------

CACHE_TTL_SECS == 10

\* wall-clock second at which the process starts
StartTime == 20

\* ------------------------------------------------------------------------
\* Text
\* ------------------------------------------------------------------------

\* the characters in use, in increasing code-point order
Alphabet == <<"-", "/", "F", "X", "a", "b", "e", "f", "g", "i", "m", "n", "r", "t", "u", "w", "x", "y">>

Code(c) == CHOOSE i \in 1..Len(Alphabet) : Alphabet[i] = c

LowerChar(c) == IF c = "F" THEN "f" ELSE IF c = "X" THEN "x" ELSE c

to_lowercase(s) == [i \in 1..Len(s) |-> LowerChar(s[i])]

\* str::contains
Contains(hay, needle) ==
    \E i \in 0..(Len(hay) - Len(needle)) :
        \A k \in 1..Len(needle) : hay[i + k] = needle[k]

\* Ord for str: lexicographic on code points, a proper prefix is smaller
StrLess(a, b) ==
    \E i \in 1..(Len(b)) :
        /\ \A k \in 1..(i - 1) : k <= Len(a) /\ a[k] = b[k]
        /\ \/ i = Len(a) + 1
           \/ i <= Len(a) /\ Code(a[i]) < Code(b[i])

\* ------------------------------------------------------------------------
\* Worktree identities of the modelled repository
\* ------------------------------------------------------------------------

MainPath == 1

Linked == {2, 3}

Paths == {MainPath} \cup Linked

PathStr(p) ==
    CASE p = 1 -> <<"/", "r">>
      [] p = 2 -> <<"/", "w", "/", "f", "e", "a", "t">>
      [] OTHER -> <<"/", "w", "/", "b", "u", "g">>

NoBranch == 0

BranchIds == {1, 2, 3}

BranchName(b) ==
    CASE b = 1 -> <<"m", "a", "i", "n">>
      [] b = 2 -> <<"f", "e", "a", "t", "u", "r", "e", "-", "x">>
      [] OTHER -> <<"b", "u", "g", "f", "i", "x", "-", "y">>

\* the summary line of commit c; commit 0 stands for "no commit read"
MsgStr(c) == IF c = 0 THEN <<>> ELSE <<"m", "e", "r", "g", "e">>

\* Ord for Option<String>: None is smaller than every Some
BranchLess(a, b) ==
    IF a = NoBranch THEN b # NoBranch
    ELSE b # NoBranch /\ StrLess(BranchName(a), BranchName(b))

\* ------------------------------------------------------------------------
\* Data model
\* ------------------------------------------------------------------------

DefaultStatus == [modified |-> 0, staged |-> 0, untracked |-> 0, ahead |-> 0, behind |-> 0]

is_clean(st) == st.modified = 0 /\ st.staged = 0 /\ st.untracked = 0

SeqIndices(n) == [i \in 1..n |-> i - 1]

NoSel == -1

\* the details of a record no detail read has filled in: zero status, empty
\* commit summary (0), no commit time (0), no recent commits (0)
DefaultDetails ==
    [status |-> DefaultStatus, commit_message |-> 0, commit_time |-> 0, recent_commits |-> 0]

\* A Worktree (main.rs 72-89).  commit is the HEAD commit id; recent_commits
\* is the id of the newest commit of the list.
Worktree(path, branch, commit, is_main, is_bare, is_locked, is_prunable) ==
    [path |-> path, branch |-> branch, commit |-> commit,
     commit_message |-> DefaultDetails.commit_message,
     commit_time |-> DefaultDetails.commit_time,
     is_main |-> is_main, is_bare |-> is_bare, is_locked |-> is_locked,
     is_prunable |-> is_prunable, status |-> DefaultDetails.status,
     recent_commits |-> DefaultDetails.recent_commits]

\* ------------------------------------------------------------------------
\* View Index Layer: apply_sort and update_search_filter
\* ------------------------------------------------------------------------

SortOrders == {"Name", "Status", "Recent"}

SortOrderNext(o) ==
    CASE o = "Name" -> "Status"
      [] o = "Status" -> "Recent"
      [] OTHER -> "Name"

\* the comparators without the two is_main tests
NaturalLess(order, a, b) ==
    CASE order = "Name" -> BranchLess(a.branch, b.branch)
      [] order = "Status" ->
           IF is_clean(a.status) # is_clean(b.status) THEN ~is_clean(a.status)
           ELSE BranchLess(a.branch, b.branch)
      [] OTHER -> b.commit_time < a.commit_time

\* TRUE when the comparator of apply_sort returns Ordering::Less for (a, b)
SortLess(order, a, b) ==
    IF a.is_main THEN TRUE
    ELSE IF b.is_main THEN FALSE
    ELSE CASE order = "Name" -> BranchLess(a.branch, b.branch)
           [] order = "Status" ->
                LET a_dirty == ~is_clean(a.status)
                    b_dirty == ~is_clean(b.status)
                IN  IF a_dirty # b_dirty THEN a_dirty
                    ELSE BranchLess(a.branch, b.branch)
           [] OTHER -> b.commit_time < a.commit_time

\* slice::sort_by is stable: x goes before the first element it is Less than
SortInsert(order, s, x) ==
    LET before == {i \in 1..Len(s) : SortLess(order, x, s[i])}
        pos == IF before = {} THEN Len(s) + 1
               ELSE CHOOSE i \in before : \A j \in before : i <= j
    IN  SubSeq(s, 1, pos - 1) \o <<x>> \o SubSeq(s, pos, Len(s))

RECURSIVE SortPrefix(_, _, _)
SortPrefix(order, s, n) ==
    IF n = 0 THEN <<>>
    ELSE SortInsert(order, SortPrefix(order, s, n - 1), s[n])

\* a sort that leaves the collection in the order it came in
Unsorted(order, wts) == wts

\* App::apply_sort: the collection itself is sorted in place
apply_sort(order, wts) == SortPrefix(order, wts, Len(wts))

\* the predicate of the filter closure in update_search_filter
MatchesQuery(wt, search_query) ==
    LET query == to_lowercase(search_query)
    IN  \/ Contains(to_lowercase(PathStr(wt.path)), query)
        \/ wt.branch # NoBranch /\ Contains(to_lowercase(BranchName(wt.branch)), query)
        \/ Contains(to_lowercase(MsgStr(wt.commit_message)), query)

RECURSIVE FilterIndices(_, _, _)
FilterIndices(wts, search_query, n) ==
    IF n = 0 THEN <<>>
    ELSE FilterIndices(wts, search_query, n - 1)
         \o (IF MatchesQuery(wts[n], search_query) THEN <<n - 1>> ELSE <<>>)

\* App::update_search_filter: the new filtered_indices and the new selection
SearchFiltered(wts, search_query) == FilterIndices(wts, search_query, Len(wts))

SearchSelected(filtered, sel) ==
    IF (IF sel = NoSel THEN 0 ELSE sel) >= Len(filtered)
    THEN (IF Len(filtered) = 0 THEN NoSel ELSE 0)
    ELSE sel

\* ------------------------------------------------------------------------
\* Repository Reader and Detail Fetcher: fetch_all_worktrees
\* ------------------------------------------------------------------------

\* get_wt_info for the worktree at p of repository state r: the main worktree
\* (proxy None) or an entry of the linked-worktree listing
WtInfo(r, p, is_main) ==
    Worktree(p, r.wt[p].branch, r.wt[p].commit, is_main,
             r.bare /\ is_main, ~is_main /\ r.wt[p].locked, ~r.wt[p].exists)

\* the reads of a detail unit that can fail: opening the worktree's own
\* repository, and the three queries on it
DetailQueries == {"status", "commit_info", "recent_commits"}

UnitFailures == {"open"} \cup DetailQueries

NoFails == [p \in Paths |-> {}]

\* the tuple a detail unit returns for the worktree at p when the reads in f
\* fail (main.rs 2878-2886): a failed open gives the defaults, a failed query
\* the default of that query alone
UnitResult(r, p, f) ==
    IF "open" \in f THEN DefaultDetails
    ELSE [status |-> IF "status" \in f THEN DefaultStatus
                     ELSE [DefaultStatus EXCEPT !.modified = r.wt[p].modified],
          commit_message |-> IF "commit_info" \in f THEN 0 ELSE r.wt[p].commit,
          commit_time |-> IF "commit_info" \in f THEN 0 ELSE r.wt[p].commit,
          recent_commits |-> IF "recent_commits" \in f THEN 0 ELSE r.wt[p].commit]

\* the four assignments that store a detail tuple in a record
SlotWritten(w, d) ==
    [w EXCEPT !.status = d.status,
              !.commit_message = d.commit_message,
              !.commit_time = d.commit_time,
              !.recent_commits = d.recent_commits]

\* a record with the details of its worktree, every read succeeding
WithDetails(r, w) == SlotWritten(w, UnitResult(r, w.path, {}))

\* the main worktree first, then the linked worktrees in listing order
BaseList(r) ==
    <<WtInfo(r, MainPath, TRUE)>>
    \o [i \in 1..Len(r.listing) |-> WtInfo(r, r.listing[i], FALSE)]

\* a guard that skips bare records only
SkipsBareOnly(w) == w.is_bare

\* the guard of the spawn loop: no unit for a bare or prunable record
UnitSkipped(w) == w.is_bare \/ w.is_prunable

\* fetch_all_worktrees after a successful open and enumeration; fails gives
\* for every worktree the reads of its detail unit that fail
fetch_all_worktrees(r, fails) ==
    LET base == BaseList(r)
    IN  [i \in 1..Len(base) |->
            IF UnitSkipped(base[i]) THEN base[i]
            ELSE SlotWritten(base[i], UnitResult(r, base[i].path, fails[base[i].path]))]

\* ------------------------------------------------------------------------
\* Disk Cache
\* ------------------------------------------------------------------------

RepoRoot == MainPath

\* a root whose cache file name collides with ours
OtherRoot == 9

\* the cache file: absent, unreadable, unparsable ("corrupt"), or the document
\* of an envelope (kind "file"); None of Option<WorktreeCache> is the absent one
NoCache == [kind |-> "absent", timestamp |-> 0, repo_root |-> 0, worktrees |-> <<>>]

Corrupt == [NoCache EXCEPT !.kind = "corrupt"]

\* a freshness test that takes an envelope of exactly the time-to-live as fresh
is_fresh_inclusive(envelope, t) ==
    (IF t >= envelope.timestamp THEN t - envelope.timestamp ELSE 0) <= CACHE_TTL_SECS

\* a freshness test with a time-to-live one second shorter
is_fresh_short(envelope, t) ==
    (IF t >= envelope.timestamp THEN t - envelope.timestamp ELSE 0) < CACHE_TTL_SECS - 1

\* WorktreeCache::is_fresh, with saturating_sub
is_fresh(envelope, t) ==
    (IF t >= envelope.timestamp THEN t - envelope.timestamp ELSE 0) < CACHE_TTL_SECS

\* a path that is not valid UTF-8
RawPath == 7

\* Serialize for Path: Err on a path that is not UTF-8
Serializable(cache) ==
    /\ cache.repo_root # RawPath
    /\ \A i \in 1..Len(cache.worktrees) : cache.worktrees[i].path # RawPath

\* a writer that leaves the commit time out of the document
to_string_without_time(cache) ==
    [kind |-> "file", timestamp |-> cache.timestamp, repo_root |-> cache.repo_root,
     worktrees |-> [i \in 1..Len(cache.worktrees) |->
                       [cache.worktrees[i] EXCEPT !.commit_time = 0]]]

\* serde_json::to_string_pretty of a WorktreeCache: one member per field of
\* the derived Serialize, under the field's name
to_string_pretty(cache) ==
    [kind |-> "file",
     timestamp |-> cache.timestamp,
     repo_root |-> cache.repo_root,
     worktrees |-> [i \in 1..Len(cache.worktrees) |->
        [path |-> cache.worktrees[i].path,
         branch |-> cache.worktrees[i].branch,
         commit |-> cache.worktrees[i].commit,
         commit_message |-> cache.worktrees[i].commit_message,
         commit_time |-> cache.worktrees[i].commit_time,
         is_main |-> cache.worktrees[i].is_main,
         is_bare |-> cache.worktrees[i].is_bare,
         is_locked |-> cache.worktrees[i].is_locked,
         is_prunable |-> cache.worktrees[i].is_prunable,
         status |-> [modified |-> cache.worktrees[i].status.modified,
                     staged |-> cache.worktrees[i].status.staged,
                     untracked |-> cache.worktrees[i].status.untracked,
                     ahead |-> cache.worktrees[i].status.ahead,
                     behind |-> cache.worktrees[i].status.behind],
         recent_commits |-> cache.worktrees[i].recent_commits]]]

\* serde_json::from_str::<WorktreeCache>: None (NoCache) unless the content is
\* a document with the members of the derived Deserialize
from_str(content) ==
    IF content.kind # "file" THEN NoCache
    ELSE [kind |-> "file",
          timestamp |-> content.timestamp,
          repo_root |-> content.repo_root,
          worktrees |-> [i \in 1..Len(content.worktrees) |->
             [path |-> content.worktrees[i].path,
              branch |-> content.worktrees[i].branch,
              commit |-> content.worktrees[i].commit,
              commit_message |-> content.worktrees[i].commit_message,
              commit_time |-> content.worktrees[i].commit_time,
              is_main |-> content.worktrees[i].is_main,
              is_bare |-> content.worktrees[i].is_bare,
              is_locked |-> content.worktrees[i].is_locked,
              is_prunable |-> content.worktrees[i].is_prunable,
              status |-> [modified |-> content.worktrees[i].status.modified,
                          staged |-> content.worktrees[i].status.staged,
                          untracked |-> content.worktrees[i].status.untracked,
                          ahead |-> content.worktrees[i].status.ahead,
                          behind |-> content.worktrees[i].status.behind],
              recent_commits |-> content.worktrees[i].recent_commits]]]

\* a load that takes the envelope of any root
load_cache_any_root(disk, repo_root) == from_str(disk)

\* cache::load_cache: None (NoCache) when the file is absent, cannot be read
\* or parsed, or is for another root
load_cache(disk, repo_root) ==
    IF disk.kind = "absent" THEN NoCache
    ELSE IF disk.kind = "unreadable" THEN NoCache
    ELSE IF from_str(disk) = NoCache THEN NoCache
    ELSE IF from_str(disk).repo_root # repo_root THEN NoCache
    ELSE from_str(disk)

\* what the file system does with a write: the file is written ("ok"), it is
\* left as it was ("none": no cache directory, create_dir_all or the open
\* fails), or fs::write fails after it has truncated the file ("partial")
WriteOutcomes == {"ok", "none", "partial"}

\* cache::save_cache: TRUE when it returns Ok
save_cache_ok(cache, written) == written = "ok" /\ Serializable(cache)

\* cache::save_cache: the file afterwards.  The document is serialized before
\* the file is opened, so a cache that does not serialize leaves the file alone
save_cache(disk, cache, written) ==
    IF ~Serializable(cache) \/ written = "none" THEN disk
    ELSE IF written = "partial" THEN Corrupt
    ELSE to_string_pretty(cache)

\* the map in App::save_to_cache: every field is copied into the cached form
CachedWorktree(w) ==
    [path |-> w.path, branch |-> w.branch, commit |-> w.commit,
     commit_message |-> w.commit_message, commit_time |-> w.commit_time,
     is_main |-> w.is_main, is_bare |-> w.is_bare, is_locked |-> w.is_locked,
     is_prunable |-> w.is_prunable, status |-> w.status,
     recent_commits |-> w.recent_commits]

\* an envelope that is not stamped with the time of writing
create_cache_unstamped(repo_root, cached, t) ==
    [kind |-> "file", timestamp |-> 0, repo_root |-> repo_root, worktrees |-> cached]

\* cache::create_cache
create_cache(repo_root, cached, t) ==
    [kind |-> "file", timestamp |-> t, repo_root |-> repo_root, worktrees |-> cached]

\* App::save_to_cache followed by cache::save_cache; written is what the file
\* system does with the write, and an error is dropped (let _ =)
save_to_cache(disk, wts, t, written) ==
    save_cache(disk,
               create_cache(RepoRoot, [i \in 1..Len(wts) |-> CachedWorktree(wts[i])], t),
               written)

\* App::worktrees_from_cache: is_main is recomputed from the path
worktrees_from_cache(cached, repo_root) ==
    [i \in 1..Len(cached) |->
        [path |-> cached[i].path, branch |-> cached[i].branch,
         commit |-> cached[i].commit,
         commit_message |-> cached[i].commit_message,
         commit_time |-> cached[i].commit_time,
         is_main |-> cached[i].path = repo_root,
         is_bare |-> cached[i].is_bare, is_locked |-> cached[i].is_locked,
         is_prunable |-> cached[i].is_prunable, status |-> cached[i].status,
         recent_commits |-> cached[i].recent_commits]]

\* ------------------------------------------------------------------------
\* State
\* ------------------------------------------------------------------------

VARIABLES
    pc,      \* where the process is: "boot", "new" (App::new returned), "loop"
             \* (a frame is drawn, run_app waits in select!), "exited" (run_app
             \* returned Ok), "failed" (run_app returned Err), "panicked"
    app,     \* the fields of struct App
    repo,    \* the repository on disk: bare flag, the linked-worktree listing
             \* and one entry per path
    disk,    \* the cache file of this repository root
    now,     \* the wall clock, in seconds
    task,    \* the background refresh tasks: "idle" (not yet spawned),
             \* "running", "succeeded" (fetch_all_worktrees returned Ok),
             \* "failed" (it returned Err, or the blocking task panicked)
    chan,    \* the unbounded mpsc channel: the messages not yet received
    applied, \* how many times the message of each task was applied
    nchg,    \* how many times the repository on disk has changed
    units    \* the detail units of the fetch in progress, when the fetch is
             \* followed unit by unit

vars == <<pc, app, repo, disk, now, task, chan, applied, nchg, units>>

TaskIds == 1..MaxFetches

NoWt == [path |-> 0]

NoStatus == [text |-> "", level |-> "None"]

\* App::selected_worktree
selected_worktree(a) ==
    IF /\ a.selected # NoSel
       /\ a.selected < Len(a.filtered_indices)
       /\ a.filtered_indices[a.selected + 1] < Len(a.worktrees)
    THEN a.worktrees[a.filtered_indices[a.selected + 1] + 1]
    ELSE NoWt

\* App::set_status
set_status(a, text, level) ==
    [a EXCEPT !.status_message = [text |-> text, level |-> level],
              !.error_message = IF level = "Error" THEN text ELSE @,
              !.mode = IF level = "Error" THEN "Error" ELSE @]

\* render_worktree_list indexes worktrees with every filtered index
RenderPanics(a) ==
    \E i \in 1..Len(a.filtered_indices) : a.filtered_indices[i] >= Len(a.worktrees)

\* the state of run_app after one arm of select! has run and the loop has
\* come round to terminal.draw again
AfterHandler(a) ==
    IF a.should_quit THEN "exited"
    ELSE IF RenderPanics(a) THEN "panicked"
    ELSE "loop"

\* ------------------------------------------------------------------------
\* Start: App::new, then the head of run_app
\* ------------------------------------------------------------------------

\* the (worktrees, loading_state) pair chosen at main.rs 285-298
StartState(cached, t) ==
    IF cached = NoCache THEN [worktrees |-> <<>>, loading_state |-> "Loading"]
    ELSE [worktrees |-> worktrees_from_cache(cached.worktrees, RepoRoot),
          loading_state |-> IF is_fresh(cached, t) THEN "Idle" ELSE "Loading"]

\* App::new
NewApp(cached, t) ==
    LET st == StartState(cached, t)
        some == Len(st.worktrees) > 0
    IN  [worktrees |-> IF some THEN apply_sort("Recent", st.worktrees) ELSE st.worktrees,
         selected |-> IF some THEN 0 ELSE NoSel,
         mode |-> "Normal",
         should_quit |-> FALSE,
         cd_path |-> 0,
         status_message |-> NoStatus,
         sort_order |-> "Recent",
         loading_state |-> st.loading_state,
         create_input |-> 0,
         available_branches |-> <<>>,
         branch_list_state |-> NoSel,
         create_from_branch |-> NoBranch,
         create_checkout_existing |-> FALSE,
         merge_source_idx |-> NoSel,
         error_message |-> "",
         search_query |-> <<>>,
         search_cursor |-> 0,
         filtered_indices |-> IF some THEN SeqIndices(Len(st.worktrees)) ELSE <<>>,
         last_refresh |-> "new"]

AppNew ==
    /\ pc = "boot"
    /\ app' = NewApp(load_cache(disk, RepoRoot), now)
    /\ pc' = "new"
    /\ UNCHANGED <<repo, disk, now, task, chan, applied, nchg, units>>

\* spawn_refresh_task: the next task starts running
CanSpawn == \E i \in TaskIds : task[i] = "idle"

Spawned ==
    LET i == CHOOSE j \in TaskIds : task[j] = "idle" /\ \A k \in TaskIds : task[k] = "idle" => j <= k
    IN  [task EXCEPT ![i] = "running"]

\* the condition at the head of run_app under which the first fetch is spawned
StartSpawns(a) == a.loading_state = "Loading"

\* run_app up to its first select!
RunStart ==
    /\ pc = "new"
    /\ task' = IF StartSpawns(app) THEN Spawned ELSE task
    /\ pc' = IF RenderPanics(app) THEN "panicked" ELSE "loop"
    /\ UNCHANGED <<app, repo, disk, now, chan, applied, nchg, units>>

\* ------------------------------------------------------------------------
\* Environment: background tasks, the repository, the clock
\* ------------------------------------------------------------------------

\* a task that sends whatever the fetch returned
SendsAlways(ok) == TRUE

\* if let Ok(Ok(worktrees)) = result: only a successful fetch is sent
TaskSends(ok) == ok

\* the end of the task spawned by spawn_refresh_task (main.rs 2797-2806): ok
\* says whether fetch_all_worktrees returned Ok, fails which detail reads failed
TaskEnd(i, ok, fails) ==
    /\ task[i] = "running"
    /\ units.phase = "running" => units.of # i
    /\ task' = [task EXCEPT ![i] = IF ok THEN "succeeded" ELSE "failed"]
    /\ chan' = IF TaskSends(ok)
               THEN Append(chan, [from |-> i,
                                  worktrees |-> IF ok THEN fetch_all_worktrees(repo, fails)
                                                ELSE <<>>])
               ELSE chan
    /\ UNCHANGED <<pc, app, repo, disk, now, applied, nchg, units>>

FetchSucceeds == \E i \in TaskIds : TaskEnd(i, TRUE, NoFails)

FetchFails == \E i \in TaskIds : TaskEnd(i, FALSE, NoFails)

\* ------------------------------------------------------------------------
\* fetch_all_worktrees unit by unit: the spawn loop, the detail units and the
\* join loop of std::thread::scope (main.rs 2871-2900)
\* ------------------------------------------------------------------------

\* what a unit that has not returned holds
NoResult == [status |-> "none"]

NoUnits ==
    [phase |-> "none", of |-> 0, fails |-> NoFails, worktrees |-> <<>>, next |-> 0,
     unit |-> <<>>, result |-> <<>>, handles |-> <<>>, joined |-> 0, writes |-> <<>>]

\* the detail reads that fail during one fetch: those of at most one worktree
FailChoices ==
    {NoFails} \cup {[NoFails EXCEPT ![p] = f] : p \in Paths, f \in (SUBSET UnitFailures) \ {{}}}

\* gix::open, repo.worktrees() and get_wt_info of every entry succeeded: the
\* Vec of records before the details (main.rs 2814-2869)
FetchEnumerates ==
    \E i \in TaskIds, fails \in FailChoices :
        /\ task[i] = "running"
        /\ units.phase \in {"none", "returned"}
        /\ units' = [phase |-> "running", of |-> i, fails |-> fails,
                     worktrees |-> BaseList(repo), next |-> 1,
                     unit |-> [k \in 1..Len(BaseList(repo)) |-> "none"],
                     result |-> [k \in 1..Len(BaseList(repo)) |-> NoResult],
                     handles |-> <<>>, joined |-> 0,
                     writes |-> [k \in 1..Len(BaseList(repo)) |-> 0]]
        /\ UNCHANGED <<pc, app, repo, disk, now, task, chan, applied, nchg>>

\* one turn of the spawn loop: the record at next is skipped or gets a unit
UnitSpawn ==
    /\ units.phase = "running"
    /\ units.next <= Len(units.worktrees)
    /\ units' = IF UnitSkipped(units.worktrees[units.next])
                THEN [units EXCEPT !.next = @ + 1]
                ELSE [units EXCEPT !.next = @ + 1,
                                   !.unit[units.next] = "running",
                                   !.handles = Append(@, units.next)]
    /\ UNCHANGED <<pc, app, repo, disk, now, task, chan, applied, nchg>>

\* a running unit returns its tuple; the units finish in any order
UnitFinish ==
    \E k \in 1..Len(units.worktrees) :
        /\ units.phase = "running"
        /\ units.unit[k] = "running"
        /\ units' = [units EXCEPT
                        !.unit[k] = "finished",
                        !.result[k] = UnitResult(repo, units.worktrees[k].path,
                                                 units.fails[units.worktrees[k].path])]
        /\ UNCHANGED <<pc, app, repo, disk, now, task, chan, applied, nchg>>

\* a join that does not wait for the unit
JoinsAtOnce(u, k) == TRUE

\* handle.join() returns once the unit of the handle has finished
Joinable(u, k) == u.unit[k] = "finished"

\* one turn of the join loop: the next handle in spawn order is joined and
\* its tuple is stored in the record of its index
UnitJoin ==
    /\ units.phase = "running"
    /\ units.next > Len(units.worktrees)
    /\ units.joined < Len(units.handles)
    /\ LET k == units.handles[units.joined + 1]
       IN  /\ Joinable(units, k)
           /\ units' = [units EXCEPT
                           !.joined = @ + 1,
                           !.writes[k] = @ + 1,
                           !.worktrees[k] = IF units.result[k] = NoResult THEN @
                                            ELSE SlotWritten(@, units.result[k])]
    /\ UNCHANGED <<pc, app, repo, disk, now, task, chan, applied, nchg>>

\* the scope has joined every handle: Ok(worktrees), which the task sends
FetchReturns ==
    /\ units.phase = "running"
    /\ units.next > Len(units.worktrees)
    /\ units.joined = Len(units.handles)
    /\ task[units.of] = "running"
    /\ task' = [task EXCEPT ![units.of] = "succeeded"]
    /\ chan' = IF TaskSends(TRUE)
               THEN Append(chan, [from |-> units.of, worktrees |-> units.worktrees])
               ELSE chan
    /\ units' = [units EXCEPT !.phase = "returned"]
    /\ UNCHANGED <<pc, app, repo, disk, now, applied, nchg>>

NewestCommit(r) ==
    CHOOSE c \in {r.wt[p].commit : p \in Paths} : \A p \in Paths : r.wt[p].commit <= c

\* somebody commits in the worktree at p
Committed(r, p) == [r EXCEPT !.wt[p].commit = NewestCommit(r) + 1]

ExternalCommit ==
    /\ nchg < MaxChanges
    /\ \E p \in Linked : repo' = Committed(repo, p)
    /\ nchg' = nchg + 1
    /\ UNCHANGED <<pc, app, disk, now, task, chan, applied, units>>

\* ------------------------------------------------------------------------
\* run_app: the channel arm and the tick arm of select!
\* ------------------------------------------------------------------------

\* the "Restore selection" block of the WorktreesLoaded arm
RestoredSelection(selected, n) ==
    IF selected # NoSel
    THEN (IF selected < n THEN selected ELSE IF n > 0 THEN 0 ELSE selected)
    ELSE (IF n > 0 THEN 0 ELSE NoSel)

\* an arm that installs the result and leaves loading_state alone
LoadedWithoutIdle(a, worktrees) ==
    set_status([a EXCEPT !.worktrees = apply_sort(a.sort_order, worktrees),
                         !.filtered_indices = SeqIndices(Len(worktrees))],
               "Refreshed from background", "Success")

\* the WorktreesLoaded arm (main.rs 2760-2780), save_to_cache apart
WorktreesLoaded(a, worktrees) ==
    LET sorted == apply_sort(a.sort_order, worktrees)
    IN  set_status([a EXCEPT !.worktrees = sorted,
                             !.filtered_indices = SeqIndices(Len(sorted)),
                             !.loading_state = "Idle",
                             !.selected = RestoredSelection(a.selected, Len(sorted))],
                   "Refreshed from background", "Success")

\* a receive that leaves the message in the channel
Peeked(c) == c

\* rx.recv() yields the oldest message and removes it from the channel
Received(c) == Tail(c)

\* a save whose failure is shown to the user
SaveErrorShown(a, cache, written) ==
    IF save_cache_ok(cache, written) THEN a ELSE set_status(a, "Failed: cache", "Error")

\* let _ = cache::save_cache(&cache_data): the Result is dropped, App is left
\* as it is
SaveErrorDropped(a, cache, written) == a

\* the channel arm of select!; written is the outcome of the cache write
Apply(written) ==
    /\ pc = "loop"
    /\ chan # <<>>
    /\ app' = SaveErrorDropped(
                  WorktreesLoaded(app, Head(chan).worktrees),
                  create_cache(RepoRoot, apply_sort(app.sort_order, Head(chan).worktrees), now),
                  written)
    /\ chan' = Received(chan)
    /\ applied' = [applied EXCEPT ![Head(chan).from] = @ + 1]
    /\ disk' = save_to_cache(disk, app'.worktrees, now, written)
    /\ pc' = AfterHandler(app')
    /\ UNCHANGED <<repo, now, task, nchg, units>>

ApplyResult == Apply("ok")

\* App::clear_old_status; elapsed says whether the message is older than 5 s
clear_old_status(a, elapsed) ==
    IF a.status_message # NoStatus /\ elapsed
    THEN [a EXCEPT !.status_message = NoStatus]
    ELSE a

Tick ==
    /\ pc = "loop"
    /\ \E elapsed \in BOOLEAN : app' = clear_old_status(app, elapsed)
    /\ pc' = AfterHandler(app')
    /\ UNCHANGED <<repo, disk, now, task, chan, applied, nchg, units>>

\* ------------------------------------------------------------------------
\* handle_normal_mode_async: the manual refresh request
\* ------------------------------------------------------------------------

\* a guard that accepts a refresh request in every loading_state
RefreshAlways(a) == TRUE

\* the guard of the 'r' arm: a fetch is scheduled unless one is being awaited
RefreshAccepted(a) == a.loading_state # "Loading"

RefreshRequested(a) ==
    set_status([a EXCEPT !.loading_state = "Loading"], "Refreshing...", "Info")

KeyRefresh ==
    /\ pc = "loop"
    /\ app.mode = "Normal"
    /\ IF RefreshAccepted(app)
       THEN /\ CanSpawn
            /\ task' = Spawned
            /\ app' = RefreshRequested(app)
       ELSE UNCHANGED <<task, app>>
    /\ pc' = AfterHandler(app')
    /\ UNCHANGED <<repo, disk, now, chan, applied, nchg, units>>


\* ------------------------------------------------------------------------
\* App::refresh_worktrees, the synchronous refresh the mutations call
\* ------------------------------------------------------------------------

\* what the reads of one synchronous refresh come to: everything is read
\* ("ok"), the enumeration fails ("list_err"), or the detail read of the
\* record at position at fails ("detail_err").  gix::open fails on a worktree
\* whose directory is gone, and the loop stops at the first failure.
ReadOutcomes(r) ==
    LET base == BaseList(r)
        gone(k) == ~base[k].is_bare /\ base[k].is_prunable
    IN  {[outcome |-> "list_err", at |-> 0]}
        \cup {[outcome |-> "ok", at |-> 0] : x \in {k \in {0} : \A j \in 1..Len(base) : ~gone(j)}}
        \cup {[outcome |-> "detail_err", at |-> k] :
                k \in {i \in 1..Len(base) : ~base[i].is_bare /\ \A j \in 1..(i - 1) : ~gone(j)}}

\* the detail loop of refresh_worktrees (main.rs 463-474) over the first
\* upto records; only bare records are skipped
SyncDetails(r, base, upto) ==
    [i \in 1..Len(base) |->
        IF i <= upto /\ ~base[i].is_bare THEN WithDetails(r, base[i]) ELSE base[i]]

\* refresh_worktrees returned Ok
SyncRefreshOk(rd) == rd.outcome = "ok"

\* App::refresh_worktrees (main.rs 444-492), save_to_cache apart
refresh_worktrees(a, r, rd) ==
    IF rd.outcome = "list_err" THEN a
    ELSE IF rd.outcome = "detail_err"
    THEN [a EXCEPT !.worktrees = SyncDetails(r, BaseList(r), rd.at - 1),
                   !.last_refresh = "refresh"]
    ELSE LET sorted == apply_sort(a.sort_order, SyncDetails(r, BaseList(r), Len(BaseList(r))))
             filtered == IF a.search_query # <<>>
                         THEN SearchFiltered(sorted, a.search_query)
                         ELSE SeqIndices(Len(sorted))
         IN  set_status([a EXCEPT !.worktrees = sorted,
                                  !.last_refresh = "refresh",
                                  !.filtered_indices = filtered,
                                  !.selected = IF a.search_query # <<>>
                                               THEN SearchSelected(filtered, a.selected)
                                               ELSE a.selected,
                                  !.loading_state = "Idle"],
                        "Refreshed worktree list", "Info")

\* the cache file after a synchronous refresh with outcome rd
DiskAfterRefresh(d, a2, rd, t, written) ==
    IF SyncRefreshOk(rd) THEN save_to_cache(d, a2.worktrees, t, written) ELSE d

\* ------------------------------------------------------------------------
\* Mutations.  The git command cannot be run ("spawn_err"), exits with a
\* failure ("fail") or succeeds ("ok").
\* ------------------------------------------------------------------------

CommandOutcomes == {"spawn_err", "fail", "ok"}

\* git worktree lock / unlock on the worktree at p
LockToggled(r, p) == [r EXCEPT !.wt[p].locked = ~@]

\* App::toggle_lock (main.rs 985-1011), save_to_cache apart
toggle_lock(a, r2, out, rd) ==
    LET wt == selected_worktree(a)
    IN  IF wt = NoWt \/ out = "spawn_err" THEN a
        ELSE IF out = "ok"
        THEN refresh_worktrees(
                 set_status(a, IF wt.is_locked THEN "Unlocked worktree" ELSE "Locked worktree",
                            "Success"),
                 r2, rd)
        ELSE set_status(a, "Failed: lock", "Error")

\* 'L' in Normal mode; written is the outcome of the cache write
Lock(written) ==
    /\ pc = "loop"
    /\ app.mode = "Normal"
    /\ \E out \in CommandOutcomes :
          LET wt == selected_worktree(app)
              ran == wt # NoWt /\ out = "ok"
          IN  /\ ran => nchg < MaxChanges
              /\ repo' = IF ran THEN LockToggled(repo, wt.path) ELSE repo
              /\ nchg' = IF ran THEN nchg + 1 ELSE nchg
              /\ \E rd \in ReadOutcomes(repo') :
                    /\ app' = toggle_lock(app, repo', out, rd)
                    /\ disk' = IF ran THEN DiskAfterRefresh(disk, app', rd, now, written)
                               ELSE disk
    /\ pc' = AfterHandler(app')
    /\ UNCHANGED <<now, task, chan, applied, units>>

KeyLock == Lock("ok")

\* ------------------------------------------------------------------------
\* The other mutations: create, delete, merge, pull, push, fetch, prune.
\* Each function gives the App and the repository it leaves, whether it
\* returned Err, whether its git command ran to success, and whether the
\* cache was saved.
\* ------------------------------------------------------------------------

MutationOps == {"create", "delete", "lock", "merge", "pull", "push", "fetch", "prune"}

\* the result of the command: CommandOutcomes, a merge stopped by a conflict,
\* or create_dir_all failing before the command
GitOutcomes(op) ==
    CommandOutcomes
    \cup (IF op = "merge" THEN {"conflict"} ELSE {})
    \cup (IF op = "create" THEN {"mkdir_err"} ELSE {})

\* the function returns Ok without running a command
NotRun(a, r) == [app |-> a, repo |-> r, err |-> FALSE, ran |-> FALSE, saved |-> FALSE]

\* a success branch without the refresh
RunGitNoRefresh(a, r, r2, out, rd, ok_text, failed) ==
    [app |-> IF out = "spawn_err" THEN a
             ELSE IF out = "ok" THEN set_status(a, ok_text, "Success")
             ELSE failed,
     repo |-> IF out = "ok" THEN r2 ELSE r,
     err |-> out = "spawn_err",
     ran |-> out = "ok",
     saved |-> FALSE]

\* a failure branch that re-reads the worktrees as the success branch does
RunGitRefreshAlways(a, r, r2, out, rd, ok_text, failed) ==
    [app |-> IF out = "spawn_err" THEN a
             ELSE IF out = "ok" THEN refresh_worktrees(set_status(a, ok_text, "Success"), r2, rd)
             ELSE refresh_worktrees(failed, r, rd),
     repo |-> IF out = "ok" THEN r2 ELSE r,
     err |-> out = "spawn_err" \/ (out = "ok" /\ ~SyncRefreshOk(rd)),
     ran |-> out = "ok",
     saved |-> out = "ok" /\ SyncRefreshOk(rd)]

\* Command::new("git")...output()?, then on success set_status and
\* self.refresh_worktrees()?, else the failure status (failed)
RunGit(a, r, r2, out, rd, ok_text, failed) ==
    [app |-> IF out = "spawn_err" THEN a
             ELSE IF out = "ok" THEN refresh_worktrees(set_status(a, ok_text, "Success"), r2, rd)
             ELSE failed,
     repo |-> IF out = "ok" THEN r2 ELSE r,
     err |-> out = "spawn_err" \/ (out = "ok" /\ ~SyncRefreshOk(rd)),
     ran |-> out = "ok",
     saved |-> out = "ok" /\ SyncRefreshOk(rd)]

\* the path and the branch name a typed worktree name stands for
NewPath == 3

InListing(r, p) == \E i \in 1..Len(r.listing) : r.listing[i] = p

\* git worktree add: a new worktree at p on branch b, at the commit of main
Created(r, p, b) ==
    [r EXCEPT !.listing = Append(@, p),
              !.wt[p] = [exists |-> TRUE, branch |-> b, commit |-> r.wt[MainPath].commit,
                         modified |-> 0, locked |-> FALSE]]

\* git worktree remove
Deleted(r, p) ==
    [r EXCEPT !.listing = SelectSeq(@, LAMBDA q : q # p), !.wt[p].exists = FALSE]

\* git worktree prune: the entries whose directory is gone leave the listing
Pruned(r) == [r EXCEPT !.listing = SelectSeq(@, LAMBDA q : r.wt[q].exists)]

\* worktrees.iter().position(|wt| wt.path == worktree_path), then the
\* position of that index in filtered_indices
SelectedAfterCreate(a, p) ==
    LET hits == {i \in 1..Len(a.worktrees) : a.worktrees[i].path = p}
        pos == IF hits = {} THEN NoSel ELSE (CHOOSE i \in hits : \A j \in hits : i <= j) - 1
        fhits == {i \in 1..Len(a.filtered_indices) : a.filtered_indices[i] = pos}
    IN  IF fhits = {} THEN a.selected
        ELSE (CHOOSE i \in fhits : \A j \in fhits : i <= j) - 1

\* App::create_worktree (main.rs 780-860)
create_worktree(a, r, out, rd) ==
    IF a.create_input = 0
    THEN NotRun(set_status(a, "Worktree name cannot be empty", "Error"), r)
    ELSE IF a.create_checkout_existing /\ a.create_from_branch = NoBranch
    THEN NotRun(set_status(a, "Select a branch to checkout (Tab)", "Error"), r)
    ELSE IF out = "mkdir_err"
    THEN NotRun(set_status(a, "Failed to create worktrees dir", "Error"), r)
    ELSE LET p == a.create_input
             b == IF a.create_checkout_existing THEN a.create_from_branch ELSE a.create_input
             res == RunGit(a, r, Created(r, p, b), out, rd, "Created worktree",
                           set_status(a, "Failed: add", "Error"))
         IN  IF res.saved
             THEN [res EXCEPT !.app = [res.app EXCEPT
                                          !.mode = "Normal",
                                          !.create_input = 0,
                                          !.create_from_branch = NoBranch,
                                          !.create_checkout_existing = FALSE,
                                          !.selected = SelectedAfterCreate(res.app, p)]]
             ELSE res

\* a removal without the test for the main worktree
delete_worktree_unguarded(a, r, out, rd) ==
    LET wt == selected_worktree(a)
    IN  IF wt = NoWt THEN NotRun(a, r)
        ELSE LET res == RunGit(a, r, Deleted(r, wt.path), out, rd, "Deleted worktree",
                               set_status(a, "Failed: remove", "Error"))
             IN  IF res.saved THEN [res EXCEPT !.app.mode = "Normal"] ELSE res

\* App::delete_worktree (main.rs 862-899)
delete_worktree(a, r, out, rd) ==
    LET wt == selected_worktree(a)
    IN  IF wt = NoWt THEN NotRun(a, r)
        ELSE IF wt.is_main
        THEN NotRun(set_status(a, "Cannot delete main worktree", "Error"), r)
        ELSE LET res == RunGit(a, r, Deleted(r, wt.path), out, rd, "Deleted worktree",
                               set_status(a, "Failed: remove", "Error"))
             IN  IF res.saved THEN [res EXCEPT !.app.mode = "Normal"] ELSE res

\* App::toggle_lock with its result
lock_result(a, r, out, rd) ==
    LET wt == selected_worktree(a)
    IN  IF wt = NoWt THEN NotRun(a, r)
        ELSE LET r2 == IF out = "ok" THEN LockToggled(r, wt.path) ELSE r
             IN  [app |-> toggle_lock(a, r2, out, rd), repo |-> r2,
                  err |-> out = "spawn_err" \/ (out = "ok" /\ ~SyncRefreshOk(rd)),
                  ran |-> out = "ok",
                  saved |-> out = "ok" /\ SyncRefreshOk(rd)]

\* App::fetch_all (main.rs 1013-1028); the remote is not part of the model
fetch_all(a, r, out, rd) ==
    LET a1 == set_status(a, "Fetching from remote...", "Info")
    IN  RunGit(a1, r, r, out, rd, "Fetched latest from remote",
               set_status(a1, "Fetch failed", "Error"))

\* App::pull_current (main.rs 1030-1054): the branch receives a commit
pull_current(a, r, out, rd) ==
    LET wt == selected_worktree(a)
        a1 == set_status(a, "Pulling...", "Info")
    IN  IF wt = NoWt THEN NotRun(a, r)
        ELSE RunGit(a1, r, Committed(r, wt.path), out, rd, "Pulled",
                    set_status(a1, "Pull failed", "Error"))

\* App::push_current (main.rs 1056-1080)
push_current(a, r, out, rd) ==
    LET wt == selected_worktree(a)
        a1 == set_status(a, "Pushing...", "Info")
    IN  IF wt = NoWt THEN NotRun(a, r)
        ELSE RunGit(a1, r, r, out, rd, "Pushed", set_status(a1, "Push failed", "Error"))

\* App::prune_worktrees (main.rs 1082-1097)
prune_worktrees(a, r, out, rd) ==
    LET a1 == set_status(a, "Pruning stale worktrees...", "Info")
    IN  RunGit(a1, r, Pruned(r), out, rd, "Pruned stale worktrees",
               set_status(a1, "Prune failed", "Error"))

\* the path of the first worktree on branch b, 0 when there is none
WorktreeOnBranch(wts, b) ==
    LET hits == {i \in 1..Len(wts) : wts[i].branch = b}
    IN  IF hits = {} THEN 0 ELSE wts[CHOOSE i \in hits : \A j \in hits : i <= j].path

\* App::perform_merge (main.rs 1099-1163); source_idx is within worktrees
perform_merge(a, r, out, rd, source_idx, target_branch) ==
    LET source_branch == a.worktrees[source_idx + 1].branch
        merge_path == WorktreeOnBranch(a.worktrees, target_branch)
        a1 == set_status(a, "Merging...", "Info")
    IN  IF source_branch = NoBranch THEN NotRun(a, r)
        ELSE IF source_branch = target_branch
        THEN NotRun(set_status(a, "Cannot merge branch into itself", "Error"), r)
        ELSE IF merge_path = 0
        THEN NotRun(set_status(a, "Branch is not active in any worktree", "Error"), r)
        ELSE RunGit(a1, r, Committed(r, merge_path), out, rd, "Merged",
                    IF out = "conflict" THEN set_status(a1, "Conflict! Resolve in worktree", "Warning")
                    ELSE set_status(a1, "Merge failed", "Error"))

\* KeyCode::Enter of handle_merge_select_mode (main.rs 1538-1550); the merge
\* indexes worktrees with merge_source_idx and panics when it is out of range
merge_entered(a, r, out, rd) ==
    LET idx == a.branch_list_state
        has_target == idx # NoSel /\ idx < Len(a.available_branches)
        called == a.merge_source_idx # NoSel /\ has_target
        res == IF called /\ a.merge_source_idx < Len(a.worktrees)
               THEN perform_merge(a, r, out, rd, a.merge_source_idx,
                                  a.available_branches[idx + 1])
               ELSE NotRun(a, r)
    IN  IF res.err THEN res
        ELSE [res EXCEPT !.app = [res.app EXCEPT !.mode = "Normal", !.merge_source_idx = NoSel]]

MergePanics(a) ==
    /\ a.merge_source_idx # NoSel
    /\ a.branch_list_state # NoSel /\ a.branch_list_state < Len(a.available_branches)
    /\ a.merge_source_idx >= Len(a.worktrees)

\* the function the key of a mutation calls
Performed(op, a, r, out, rd) ==
    CASE op = "create" -> create_worktree(a, r, out, rd)
      [] op = "delete" -> delete_worktree(a, r, out, rd)
      [] op = "lock" -> lock_result(a, r, out, rd)
      [] op = "merge" -> merge_entered(a, r, out, rd)
      [] op = "pull" -> pull_current(a, r, out, rd)
      [] op = "push" -> push_current(a, r, out, rd)
      [] op = "fetch" -> fetch_all(a, r, out, rd)
      [] OTHER -> prune_worktrees(a, r, out, rd)

\* the mode whose handler has the key: Enter in Create, y in Delete, Enter in
\* MergeSelect, and p P L F X in Normal mode
ModeOf(op) ==
    CASE op = "create" -> "Create"
      [] op = "delete" -> "Delete"
      [] op = "merge" -> "MergeSelect"
      [] OTHER -> "Normal"

\* the dialog handlers pass an Err on with ?, and run_app returns it; the
\* Normal-mode arms drop it (let _ =)
ErrPropagates(op) == op \in {"create", "delete", "merge"}

\* the git command can succeed: a worktree is added at a path not yet listed
Feasible(op, a, r, out) ==
    (op = "create" /\ out = "ok") => (a.create_input # 0 /\ ~InListing(r, a.create_input))

\* the reads a refresh can come to in any repository
AnyReadOutcomes ==
    {[outcome |-> "ok", at |-> 0], [outcome |-> "list_err", at |-> 0]}
    \cup {[outcome |-> "detail_err", at |-> k] : k \in 1..Cardinality(Paths)}

\* the key of mutation op, its command coming to out and the reads of its
\* refresh to rd; nchg counts the mutation keys pressed, at most MaxChanges
MutationStep(op, out, rd) ==
    /\ pc = "loop"
    /\ app.mode = ModeOf(op)
    /\ Feasible(op, app, repo, out)
    /\ IF op = "merge" /\ MergePanics(app)
       THEN /\ pc' = "panicked"
            /\ UNCHANGED <<app, repo, disk, nchg>>
       ELSE LET res == Performed(op, app, repo, out, rd)
            IN  /\ nchg < MaxChanges
                /\ repo' = res.repo
                /\ res.ran => rd \in ReadOutcomes(repo')
                /\ app' = res.app
                /\ nchg' = nchg + 1
                /\ disk' = IF res.saved THEN save_to_cache(disk, app'.worktrees, now, "ok")
                           ELSE disk
                /\ pc' = IF res.err /\ ErrPropagates(op) THEN "failed" ELSE AfterHandler(app')
    /\ UNCHANGED <<now, task, chan, applied, units>>

Mutation(op) == \E out \in GitOutcomes(op), rd \in AnyReadOutcomes : MutationStep(op, out, rd)

KeyCreateEnter == Mutation("create")

KeyDeleteConfirm == Mutation("delete")

KeyLockToggle == Mutation("lock")

KeyMergeEnter == Mutation("merge")

KeyPull == Mutation("pull")

KeyPush == Mutation("push")

KeyFetchAll == Mutation("fetch")

KeyPrune == Mutation("prune")

\* ------------------------------------------------------------------------
\* handle_normal_mode: navigation, dialogs, quit
\* ------------------------------------------------------------------------

\* App::move_selection
move_selection(a, delta) ==
    LET len == Len(a.filtered_indices)
        current == IF a.selected = NoSel THEN 0 ELSE a.selected
    IN  IF len = 0 THEN a
        ELSE [a EXCEPT !.selected =
                 IF delta > 0
                 THEN (IF current + delta < len - 1 THEN current + delta ELSE len - 1)
                 ELSE (IF current + delta > 0 THEN current + delta ELSE 0)]

\* j k Ctrl-d Ctrl-u PageDown PageUp, and the mouse wheel
MoveDeltas == {1, -1, 5, -5, 10, -10}

KeyMove ==
    /\ pc = "loop"
    /\ app.mode = "Normal"
    /\ \E delta \in MoveDeltas : app' = move_selection(app, delta)
    /\ pc' = AfterHandler(app')
    /\ UNCHANGED <<repo, disk, now, task, chan, applied, nchg, units>>

\* 'q' or Esc in Normal mode; handle_event then returns true
KeyQuit ==
    /\ pc = "loop"
    /\ app.mode = "Normal"
    /\ app' = [app EXCEPT !.should_quit = TRUE]
    /\ pc' = AfterHandler(app')
    /\ UNCHANGED <<repo, disk, now, task, chan, applied, nchg, units>>

\* refs.local_branches(), in reference-name order
AllBranches == <<3, 2, 1>>

\* 'c' or 'a': refresh_branches reads the references; its error is dropped
CreateOpened(a, read_ok) ==
    [a EXCEPT !.mode = "Create",
              !.create_input = 0,
              !.create_from_branch = NoBranch,
              !.create_checkout_existing = FALSE,
              !.available_branches = IF read_ok THEN AllBranches ELSE @]

\* 'x' or Delete
DeleteOpened(a) ==
    IF selected_worktree(a) # NoWt THEN [a EXCEPT !.mode = "Delete"] ELSE a

\* '/'
SearchOpened(a) == [a EXCEPT !.mode = "Search", !.search_query = <<>>, !.search_cursor = 0]

\* the branches of the worktrees, without repeats, main and master first and
\* the rest by name (App::refresh_merge_branches)
MergeBranchLess(x, y) ==
    IF (x = 1) # (y = 1) THEN x = 1 ELSE StrLess(BranchName(x), BranchName(y))

RECURSIVE BranchesSorted(_)
BranchesSorted(S) ==
    IF S = {} THEN <<>>
    ELSE LET m == CHOOSE x \in S : \A y \in S \ {x} : MergeBranchLess(x, y)
         IN  <<m>> \o BranchesSorted(S \ {m})

refresh_merge_branches(a) ==
    [a EXCEPT !.available_branches =
        BranchesSorted({a.worktrees[i].branch : i \in 1..Len(a.worktrees)} \ {NoBranch})]

\* 'm'
MergeOpened(a) ==
    LET wt == selected_worktree(a)
    IN  IF wt = NoWt THEN a
        ELSE IF wt.branch = NoBranch
        THEN set_status(a, "Cannot merge detached HEAD", "Error")
        ELSE [refresh_merge_branches(
                 [a EXCEPT !.merge_source_idx = a.filtered_indices[a.selected + 1],
                           !.mode = "MergeSelect"])
              EXCEPT !.branch_list_state = 0]

\* a key of Normal mode that only changes fields of App, to a2
NormalKey(a2) ==
    /\ pc = "loop"
    /\ app.mode = "Normal"
    /\ app' = a2
    /\ pc' = AfterHandler(app')
    /\ UNCHANGED <<repo, disk, now, task, chan, applied, nchg, units>>

\* '?'
KeyHelp == NormalKey([app EXCEPT !.mode = "Help"])

KeyCreateOpen == \E read_ok \in BOOLEAN : NormalKey(CreateOpened(app, read_ok))

KeyDeleteOpen == NormalKey(DeleteOpened(app))

KeySearchOpen == NormalKey(SearchOpened(app))

KeyMergeOpen == NormalKey(MergeOpened(app))

\* an Esc that leaves Search mode and clears the query but keeps the filter
EscKeepsFilter(a) ==
    IF a.mode = "Search" THEN [a EXCEPT !.mode = "Normal", !.search_query = <<>>]
    ELSE [a EXCEPT !.mode = "Normal", !.error_message = "", !.create_input = 0,
                   !.create_checkout_existing = FALSE, !.merge_source_idx = NoSel]

\* Esc in a dialog (handle_help_mode, handle_error_mode, handle_create_mode,
\* handle_delete_mode, handle_search_mode, handle_branch_select_mode,
\* handle_merge_select_mode)
EscPressed(a) ==
    CASE a.mode = "Help" -> [a EXCEPT !.mode = "Normal"]
      [] a.mode = "Error" -> [a EXCEPT !.mode = "Normal", !.error_message = ""]
      [] a.mode = "Create" ->
            [a EXCEPT !.mode = "Normal", !.create_input = 0,
                      !.create_checkout_existing = FALSE]
      [] a.mode = "Delete" -> [a EXCEPT !.mode = "Normal"]
      [] a.mode = "Search" ->
            [a EXCEPT !.mode = "Normal", !.search_query = <<>>,
                      !.filtered_indices = SeqIndices(Len(a.worktrees))]
      [] a.mode = "BranchSelect" -> [a EXCEPT !.mode = "Create"]
      [] OTHER -> [a EXCEPT !.mode = "Normal", !.merge_source_idx = NoSel]

KeyEscDialog ==
    /\ pc = "loop"
    /\ app.mode # "Normal"
    /\ app' = EscPressed(app)
    /\ pc' = AfterHandler(app')
    /\ UNCHANGED <<repo, disk, now, task, chan, applied, nchg, units>>

\* Tab in the Create dialog
KeyCreateTab ==
    /\ pc = "loop"
    /\ app.mode = "Create"
    /\ app' = [app EXCEPT !.mode = "BranchSelect", !.branch_list_state = 0]
    /\ pc' = AfterHandler(app')
    /\ UNCHANGED <<repo, disk, now, task, chan, applied, nchg, units>>

\* KeyCode::Char in the Create dialog: the name of the new worktree is typed
KeyCreateChar ==
    /\ pc = "loop"
    /\ app.mode = "Create"
    /\ app.create_input = 0
    /\ app' = [app EXCEPT !.create_input = NewPath]
    /\ pc' = AfterHandler(app')
    /\ UNCHANGED <<repo, disk, now, task, chan, applied, nchg, units>>

\* ------------------------------------------------------------------------
\* handle_search_mode
\* ------------------------------------------------------------------------

\* App::update_search_filter
update_search_filter(a) ==
    LET filtered == SearchFiltered(a.worktrees, a.search_query)
    IN  [a EXCEPT !.filtered_indices = filtered,
                  !.selected = SearchSelected(filtered, a.selected)]

\* the characters typed into the search bar
SearchKeys == {"f", "i", "x", "X", "m"}

\* String::insert and String::remove at a character position
Inserted(q, at, c) == SubSeq(q, 1, at) \o <<c>> \o SubSeq(q, at + 1, Len(q))

Removed(q, at) == SubSeq(q, 1, at) \o SubSeq(q, at + 2, Len(q))

\* KeyCode::Char(c)
SearchTyped(a, c) ==
    update_search_filter([a EXCEPT !.search_query = Inserted(@, a.search_cursor, c),
                                   !.search_cursor = @ + 1])

\* KeyCode::Backspace
SearchBackspaced(a) ==
    IF a.search_cursor > 0
    THEN update_search_filter([a EXCEPT !.search_query = Removed(@, a.search_cursor - 1),
                                        !.search_cursor = @ - 1])
    ELSE a

\* Ctrl-u
SearchCleared(a) ==
    update_search_filter([a EXCEPT !.search_query = <<>>, !.search_cursor = 0])

\* KeyCode::Enter: back to Normal mode, the query stays active
SearchEntered(a) == [a EXCEPT !.mode = "Normal"]

SearchKey(a2) ==
    /\ pc = "loop"
    /\ app.mode = "Search"
    /\ app' = a2
    /\ pc' = AfterHandler(app')
    /\ UNCHANGED <<repo, disk, now, task, chan, applied, nchg, units>>

KeySearchChar ==
    /\ app.mode = "Search"
    /\ Len(app.search_query) < MaxQuery
    /\ \E c \in SearchKeys : SearchKey(SearchTyped(app, c))

KeySearchBackspace == SearchKey(SearchBackspaced(app))

KeySearchClear == SearchKey(SearchCleared(app))

KeySearchEnter == SearchKey(SearchEntered(app))

\* ------------------------------------------------------------------------
\* App::cycle_sort ('s' in Normal mode)
\* ------------------------------------------------------------------------

\* format!("Sorted by {}", self.sort_order.label())
SortLabel(o) ==
    CASE o = "Name" -> "Sorted by name"
      [] o = "Status" -> "Sorted by status"
      [] OTHER -> "Sorted by recent"

\* worktrees.iter().position(|wt| wt.branch.as_ref() == Some(&name))
PositionOfBranch(wts, name) ==
    LET hits == {i \in 1..Len(wts) : wts[i].branch = name}
    IN  IF hits = {} THEN NoSel
        ELSE (CHOOSE i \in hits : \A j \in hits : i <= j) - 1

cycle_sort(a) ==
    LET order == SortOrderNext(a.sort_order)
        wt == selected_worktree(a)
        name == IF wt = NoWt THEN NoBranch ELSE wt.branch
        sorted == apply_sort(order, a.worktrees)
        pos == IF name = NoBranch THEN NoSel ELSE PositionOfBranch(sorted, name)
        a1 == [a EXCEPT !.sort_order = order,
                        !.worktrees = sorted,
                        !.filtered_indices = SeqIndices(Len(sorted)),
                        !.selected = IF pos # NoSel THEN pos ELSE @]
        a2 == IF a.search_query # <<>> THEN update_search_filter(a1) ELSE a1
    IN  set_status(a2, SortLabel(order), "Info")

KeySort == NormalKey(cycle_sort(app))

\* ------------------------------------------------------------------------
\* Specification
\* ------------------------------------------------------------------------

RepoEntry(branch, commit) ==
    [exists |-> TRUE, branch |-> branch, commit |-> commit,
     modified |-> 0, locked |-> FALSE]

\* the repository when the process starts: main and two linked worktrees, the
\* second of them on a branch or on a detached HEAD
StartRepo(b3) ==
    [bare |-> FALSE,
     listing |-> <<2, 3>>,
     wt |-> [p \in Paths |->
                CASE p = 1 -> RepoEntry(1, 1)
                  [] p = 2 -> RepoEntry(2, 3)
                  [] OTHER -> RepoEntry(b3, 2)]]

\* the repository when an earlier run wrote the cache: feature-x had not yet
\* received its newest commit
EarlierRepo(b3) == [StartRepo(b3) EXCEPT !.wt[2].commit = 1]

EarlierCache(b3, root, age) ==
    save_to_cache(NoCache, apply_sort("Recent", fetch_all_worktrees(EarlierRepo(b3), NoFails)),
                  StartTime - age, "ok")

StartDisks(b3) ==
    {NoCache, Corrupt, [EarlierCache(b3, RepoRoot, CACHE_TTL_SECS) EXCEPT !.repo_root = OtherRoot]}
    \cup {EarlierCache(b3, RepoRoot, age) :
            age \in {CACHE_TTL_SECS - 1, CACHE_TTL_SECS, CACHE_TTL_SECS + 1}}

Init ==
    /\ pc = "boot"
    /\ app = [mode |-> "None"]
    /\ repo = StartRepo(3)
    /\ disk \in StartDisks(3)
    /\ now = StartTime
    /\ task = [i \in TaskIds |-> "idle"]
    /\ chan = <<>>
    /\ applied = [i \in TaskIds |-> 0]
    /\ nchg = 0
    /\ units = NoUnits

Next ==
    \/ AppNew
    \/ RunStart
    \/ FetchSucceeds
    \/ FetchFails
    \/ ExternalCommit
    \/ ApplyResult
    \/ Tick
    \/ KeyRefresh
    \/ KeyLock
    \/ KeyMove
    \/ KeyQuit
    \/ KeyHelp
    \/ KeyDeleteOpen
    \/ KeySearchOpen
    \/ KeyEscDialog

Spec == Init /\ [][Next]_vars

\* The background fetch followed unit by unit, from a start without a cache
\* file, over repositories that are bare or not, whose second linked worktree
\* is there or gone, and whose listing names a worktree twice or names the
\* main worktree.
FetchListings == {<<2, 3>>, <<2, 2>>, <<1, 3>>, <<3>>}

FetchRepos ==
    {[StartRepo(3) EXCEPT !.bare = b, !.listing = l, !.wt[3].exists = e] :
        b \in BOOLEAN, l \in FetchListings, e \in BOOLEAN}

FetchInit ==
    /\ pc = "boot"
    /\ app = [mode |-> "None"]
    /\ repo \in FetchRepos
    /\ disk = NoCache
    /\ now = StartTime
    /\ task = [i \in TaskIds |-> "idle"]
    /\ chan = <<>>
    /\ applied = [i \in TaskIds |-> 0]
    /\ nchg = 0
    /\ units = NoUnits

FetchNext ==
    \/ AppNew
    \/ RunStart
    \/ FetchEnumerates
    \/ FetchFails
    \/ UnitSpawn
    \/ UnitFinish
    \/ UnitJoin
    \/ FetchReturns
    \/ ApplyResult

FetchSpec == FetchInit /\ [][FetchNext]_vars

\* The loop of run_app with the search bar
SearchNext ==
    \/ AppNew
    \/ RunStart
    \/ FetchSucceeds
    \/ FetchFails
    \/ ApplyResult
    \/ KeyMove
    \/ KeyQuit
    \/ KeySearchOpen
    \/ KeySearchChar
    \/ KeySearchBackspace
    \/ KeySearchClear
    \/ KeySearchEnter
    \/ KeyEscDialog

SearchSpec == Init /\ [][SearchNext]_vars

\* Starts over cache files of this root whose records come in any order, with
\* or without a branch, clean or dirty, with or without a commit time, and
\* over files none of whose records, or two of whose records, have the path
\* of the repository root.
CacheEntry(p, b, m, t) ==
    [Worktree(p, b, t, p = RepoRoot, FALSE, FALSE, FALSE) EXCEPT
        !.commit_time = t, !.commit_message = t, !.recent_commits = t,
        !.status = [DefaultStatus EXCEPT !.modified = m]]

Permutations3 == {f \in [1..3 -> 1..3] : \A i, j \in 1..3 : f[i] = f[j] => i = j}

CacheContents ==
    {[i \in 1..3 |-> <<CacheEntry(1, 1, 0, 1), CacheEntry(2, b2, m2, t2),
                       CacheEntry(3, 3, m3, t3)>>[f[i]]] :
        f \in Permutations3, b2 \in {2, NoBranch}, m2 \in {0, 1}, t2 \in {0, 1, 2},
        m3 \in {0, 1}, t3 \in {0, 1, 2}}
    \cup {<<CacheEntry(2, 2, 0, 1), CacheEntry(3, 3, 0, 2)>>,
          <<CacheEntry(1, 1, 0, 1), CacheEntry(1, 2, 0, 2), CacheEntry(3, 3, 0, 2)>>,
          <<CacheEntry(1, 1, 0, 1), [CacheEntry(2, 2, 0, 1) EXCEPT !.status.ahead = 1],
            CacheEntry(3, 3, 0, 2)>>}

CacheDisks ==
    {create_cache(RepoRoot, c, StartTime - age) :
        c \in CacheContents, age \in {CACHE_TTL_SECS - 1, CACHE_TTL_SECS}}

CacheInit ==
    /\ pc = "boot"
    /\ app = [mode |-> "None"]
    /\ repo = StartRepo(3)
    /\ disk \in CacheDisks
    /\ now = StartTime
    /\ task = [i \in TaskIds |-> "idle"]
    /\ chan = <<>>
    /\ applied = [i \in TaskIds |-> 0]
    /\ nchg = 0
    /\ units = NoUnits

CacheNext ==
    \/ AppNew
    \/ RunStart
    \/ FetchSucceeds
    \/ FetchFails
    \/ ApplyResult
    \/ KeySort
    \/ KeyMove
    \/ KeyQuit

CacheSpec == CacheInit /\ [][CacheNext]_vars

\* The cache file under every kind of content and of write.  Before this
\* process starts, another run of the program for this root, or for a root
\* whose file name collides with it, saves an envelope; the process then
\* loads the file, fetches, and saves with any outcome of the write.
Roots == {RepoRoot, OtherRoot}

Unreadable == [NoCache EXCEPT !.kind = "unreadable"]

\* write times of an envelope: older than, at and inside the time-to-live,
\* the present, and a time the clock has since been set back from
Stamps ==
    {StartTime - (CACHE_TTL_SECS + 1), StartTime - CACHE_TTL_SECS,
     StartTime - (CACHE_TTL_SECS - 1), StartTime, StartTime + 1}

SavedContents ==
    {<<>>,
     <<CacheEntry(1, 1, 0, 1)>>,
     <<CacheEntry(2, 2, 1, 2), CacheEntry(1, 1, 0, 1)>>,
     <<CacheEntry(1, 1, 0, 1), CacheEntry(RawPath, 3, 0, 2)>>,
     <<CacheEntry(1, 1, 0, 1), [CacheEntry(3, NoBranch, 0, 0) EXCEPT !.is_main = TRUE]>>}
    \cup {<<CacheEntry(1, 1, 0, 1), [CacheEntry(2, b, m, 2) EXCEPT !.is_locked = l]>> :
            b \in {2, NoBranch}, m \in {0, 1}, l \in BOOLEAN}

Envelopes ==
    {create_cache(root, c, t) : root \in Roots \cup {RawPath}, c \in SavedContents, t \in Stamps}

\* the files an earlier run has left
OldDisks ==
    {NoCache, Unreadable, Corrupt}
    \cup {to_string_pretty(create_cache(root, <<CacheEntry(1, 1, 0, 1), CacheEntry(3, 3, 0, 1)>>, t)) :
            root \in Roots, t \in Stamps}

\* cache::save_cache called with cache, once, over the file of an earlier run
SaveCache(cache, written) ==
    /\ pc = "boot"
    /\ disk \in OldDisks
    /\ disk' = save_cache(disk, cache, written)
    /\ UNCHANGED <<pc, app, repo, now, task, chan, applied, nchg, units>>

EnvelopeSaved == \E cache \in Envelopes, written \in WriteOutcomes : SaveCache(cache, written)

\* the channel arm with any outcome of the cache write
ApplyAnyWrite == \E written \in WriteOutcomes : Apply(written)

DiskInit ==
    /\ pc = "boot"
    /\ app = [mode |-> "None"]
    /\ repo = StartRepo(3)
    /\ disk \in OldDisks
    /\ now = StartTime
    /\ task = [i \in TaskIds |-> "idle"]
    /\ chan = <<>>
    /\ applied = [i \in TaskIds |-> 0]
    /\ nchg = 0
    /\ units = NoUnits

DiskNext ==
    \/ EnvelopeSaved
    \/ AppNew
    \/ RunStart
    \/ FetchSucceeds
    \/ FetchFails
    \/ ApplyAnyWrite
    \/ KeyQuit

DiskSpec == DiskInit /\ [][DiskNext]_vars

\* The loop of run_app with the mutations, from a start on a fresh or stale
\* cache file of a repository with one linked worktree, or with a second one
\* whose directory is gone.
MutationRepos ==
    {[StartRepo(3) EXCEPT !.listing = <<2>>], [StartRepo(3) EXCEPT !.wt[3].exists = FALSE]}

MutationInit ==
    /\ pc = "boot"
    /\ app = [mode |-> "None"]
    /\ repo \in MutationRepos
    /\ disk = save_to_cache(NoCache, apply_sort("Recent", fetch_all_worktrees(repo, NoFails)),
                            StartTime - CACHE_TTL_SECS, "ok")
    /\ now = StartTime
    /\ task = [i \in TaskIds |-> "idle"]
    /\ chan = <<>>
    /\ applied = [i \in TaskIds |-> 0]
    /\ nchg = 0
    /\ units = NoUnits

MutationNext ==
    \/ AppNew
    \/ RunStart
    \/ KeyMove
    \/ KeyCreateOpen
    \/ KeyCreateChar
    \/ KeyCreateEnter
    \/ KeyDeleteOpen
    \/ KeyDeleteConfirm
    \/ KeyMergeOpen
    \/ KeyMergeEnter
    \/ KeyLockToggle
    \/ KeyPull
    \/ KeyPush
    \/ KeyFetchAll
    \/ KeyPrune
    \/ KeyEscDialog

MutationSpec == MutationInit /\ [][MutationNext]_vars

\* Dialogs held open while the result of the background fetch arrives.  The
\* cache was written by an earlier run, when feature-x had not yet received
\* its newest commit; in the second repository the third worktree has been
\* removed since.
DialogRepos == {StartRepo(3), [StartRepo(3) EXCEPT !.listing = <<2>>]}

DialogInit ==
    /\ pc = "boot"
    /\ app = [mode |-> "None"]
    /\ repo \in DialogRepos
    /\ disk = EarlierCache(3, RepoRoot, CACHE_TTL_SECS)
    /\ now = StartTime
    /\ task = [i \in TaskIds |-> "idle"]
    /\ chan = <<>>
    /\ applied = [i \in TaskIds |-> 0]
    /\ nchg = 0
    /\ units = NoUnits

DialogNext ==
    \/ AppNew
    \/ RunStart
    \/ FetchSucceeds
    \/ ApplyResult
    \/ KeyMove
    \/ KeyDeleteOpen
    \/ KeyDeleteConfirm
    \/ KeyMergeOpen
    \/ KeyMergeEnter
    \/ KeyEscDialog

DialogSpec == DialogInit /\ [][DialogNext]_vars

\* The loop of run_app with every input mode the Normal-mode keys open, the
\* repository left alone.  run_app polls the channel arm in every select!, and
\* select! picks among the ready arms at random: a queued message is not passed
\* over for ever.
LoopNext ==
    \/ AppNew
    \/ RunStart
    \/ FetchSucceeds
    \/ FetchFails
    \/ ApplyResult
    \/ Tick
    \/ KeyRefresh
    \/ KeyQuit
    \/ KeyHelp
    \/ KeyCreateOpen
    \/ KeyDeleteOpen
    \/ KeySearchOpen
    \/ KeyMergeOpen
    \/ KeyEscDialog
    \/ KeyCreateTab

LiveSpec == Init /\ [][LoopNext]_vars /\ WF_vars(ApplyResult)

\* ------------------------------------------------------------------------
\* Properties
\* ------------------------------------------------------------------------

Running == Cardinality({i \in TaskIds : task[i] = "running"})

Scheduled == Cardinality({i \in TaskIds : task[i] # "idle"})

\* a result is received from the channel and applied in this step
ResultApplied == pc = "loop" /\ chan # <<>> /\ chan' = Tail(chan)

\* the cache file holds an envelope that load_cache returns for this root
EnvelopeLoads == disk.kind = "file" /\ disk.repo_root = RepoRoot

EnvelopeFresh == now - disk.timestamp < CACHE_TTL_SECS

\* worktrees holds exactly the records of the envelope, in some order
ShowsEnvelope(a) ==
    /\ Len(a.worktrees) = Len(disk.worktrees)
    /\ \A i \in 1..Len(disk.worktrees) : \E j \in 1..Len(a.worktrees) :
          /\ a.worktrees[j].path = disk.worktrees[i].path
          /\ a.worktrees[j].branch = disk.worktrees[i].branch
          /\ a.worktrees[j].commit = disk.worktrees[i].commit
          /\ a.worktrees[j].commit_time = disk.worktrees[i].commit_time
          /\ a.worktrees[j].status = disk.worktrees[i].status

\* C1: at process start a fresh envelope gives Idle on the cached records and
\* no fetch; a stale one gives Loading on the cached records and one fetch; no
\* envelope gives Loading on an empty view and one fetch.
C1_Startup ==
    [][/\ (pc = "boot" /\ pc' = "new") =>
            IF EnvelopeLoads
            THEN /\ ShowsEnvelope(app')
                 /\ app'.loading_state = IF EnvelopeFresh THEN "Idle" ELSE "Loading"
            ELSE app'.worktrees = <<>> /\ app'.loading_state = "Loading"
       /\ (pc = "new" /\ pc' # "new") =>
            /\ app' = app
            /\ Scheduled' = IF EnvelopeLoads /\ EnvelopeFresh THEN 0 ELSE 1
            /\ Running' = Scheduled']_vars

C1_Witness ==
    /\ pc = "loop"
    /\ EnvelopeLoads /\ ~EnvelopeFresh
    /\ app.loading_state = "Loading"
    /\ app.status_message = NoStatus
    /\ Len(app.worktrees) = 3
    /\ Running = 1 /\ Scheduled = 1 /\ chan = <<>>

\* C2: loading_state goes from Loading to Idle only in a step that receives a
\* fetch result from the channel and applies it.
C2_IdleOnlyByChannel ==
    [][(pc = "loop" /\ pc' = "loop" /\ app.loading_state = "Loading"
            /\ app'.loading_state = "Idle")
       => ResultApplied]_vars

\* C3: 'r' in Normal mode while Idle sets Loading and schedules exactly one
\* fetch; while Loading it changes nothing.
C3_ManualRefresh ==
    [][KeyRefresh =>
          IF app.loading_state = "Idle"
          THEN /\ app'.loading_state = "Loading"
               /\ Scheduled' = Scheduled + 1
               /\ Running' = Running + 1
          ELSE /\ task' = task
               /\ app'.loading_state = app.loading_state
               /\ app'.worktrees = app.worktrees
               /\ app'.filtered_indices = app.filtered_indices
               /\ app'.selected = app.selected
               /\ app'.status_message = app.status_message]_vars

C3_Witness ==
    /\ pc = "loop"
    /\ app.status_message.text = "Refreshing..."
    /\ app.loading_state = "Loading"
    /\ Running = 1
    /\ \E i \in TaskIds : applied[i] = 1

\* C4: at most one background fetch is outstanding: running, or finished with
\* its result still in the channel.
C4_AtMostOneOutstanding == Running + Len(chan) <= 1

\* the identity a selection is matched on: the branch name, or the path of a
\* record without a branch
Identity(w) == IF w.branch # NoBranch THEN <<"branch", w.branch>> ELSE <<"path", w.path>>

\* C5: when a fetch result is applied and the selected record's identity is
\* still in the new collection, the record with that identity is selected.
C5_SelectionFollowsRecord ==
    [][(/\ ResultApplied
        /\ pc' = "loop"
        /\ selected_worktree(app) # NoWt
        /\ \E i \in 1..Len(app'.worktrees) :
              Identity(app'.worktrees[i]) = Identity(selected_worktree(app)))
       => /\ selected_worktree(app') # NoWt
          /\ Identity(selected_worktree(app')) = Identity(selected_worktree(app))]_vars

\* C6: a background fetch that fails sends nothing, and the step in which it
\* ends leaves loading_state (Loading stays Loading), worktrees,
\* filtered_indices and the selection as they were.
C6_FailedFetchChangesNothing ==
    [][(\E i \in TaskIds : task[i] = "running" /\ task'[i] = "failed")
       => /\ chan' = chan
          /\ applied' = applied
          /\ app' = app]_vars

C6_Witness ==
    /\ pc = "loop"
    /\ \E i \in TaskIds : task[i] = "failed"
    /\ Running = 0 /\ chan = <<>>
    /\ app.loading_state = "Loading"
    /\ Len(app.worktrees) = 3

\* a manual refresh that schedules a fetch
RefreshRetried == KeyRefresh /\ Scheduled' = Scheduled + 1

\* C7: after a fetch has failed and none is outstanding, a manual refresh
\* request schedules a new fetch.
C7_ManualRefreshRetries ==
    (/\ pc = "loop"
     /\ app.mode = "Normal"
     /\ \E i \in TaskIds : task[i] = "failed"
     /\ Running = 0 /\ chan = <<>>
     /\ CanSpawn)
    => ENABLED RefreshRetried

\* C8: a result sent on the channel is eventually received and applied, and
\* the coordinator is then Idle, unless run_app has returned before.
C8_ResultEventuallyApplied ==
    /\ \A i \in TaskIds :
          (task[i] = "succeeded") ~> (applied[i] = 1 \/ pc # "loop")
    /\ (pc = "loop" /\ chan # <<>>)
          ~> (pc # "loop" \/ (chan = <<>> /\ app.loading_state = "Idle"))

C8_Witness ==
    /\ pc = "loop"
    /\ app.mode = "Delete"
    /\ \E i \in TaskIds : applied[i] = 1
    /\ app.status_message.text = "Refreshed from background"
    /\ app.loading_state = "Idle"

\* C9: after startup no handler of the render/input loop reads the repository.
\* last_refresh is assigned by refresh_worktrees alone, on the loop's thread,
\* once it has enumerated the worktrees.
C9_NoReadOnLoop == pc = "loop" => app.last_refresh = "new"

MessagesFrom(i) == Cardinality({k \in 1..Len(chan) : chan[k].from = i})

\* C10: a fetch that succeeded has sent exactly one message, every other
\* scheduled fetch none, and a message is applied at most once and then gone
\* from the channel.
C10_OneMessageAppliedOnce ==
    \A i \in TaskIds :
        MessagesFrom(i) + applied[i] = IF task[i] = "succeeded" THEN 1 ELSE 0

C10_Witness ==
    /\ \E i \in TaskIds : task[i] = "succeeded" /\ applied[i] = 1
    /\ \E i \in TaskIds : task[i] = "failed"
    /\ chan = <<>>

\* no record comes before one the comparator of order puts before it
Sorted(order, wts) ==
    \A i \in 1..Len(wts) : \A j \in (i + 1)..Len(wts) : ~SortLess(order, wts[j], wts[i])

\* the same records, in some order
SameRecords(a, b) ==
    /\ Len(a) = Len(b)
    /\ \A x \in {a[i] : i \in 1..Len(a)} \cup {b[i] : i \in 1..Len(b)} :
          Cardinality({i \in 1..Len(a) : a[i] = x}) = Cardinality({i \in 1..Len(b) : b[i] = x})

\* C11: the step that receives a fetch result ends in the next frame, and that
\* frame is drawn over the new collection with its own sort, filtered_indices,
\* selection and loading_state: worktrees holds the received records in the
\* active sort order, every filtered index and the selection point into it,
\* and loading_state is Idle.
C11_ApplyIsAtomic ==
    [][ResultApplied =>
          /\ pc' = "loop"
          /\ SameRecords(app'.worktrees, Head(chan).worktrees)
          /\ Sorted(app'.sort_order, app'.worktrees)
          /\ Len(app'.filtered_indices) = Len(app'.worktrees)
          /\ \A i \in 1..Len(app'.filtered_indices) :
                app'.filtered_indices[i] \in 0..(Len(app'.worktrees) - 1)
          /\ app'.worktrees # <<>> => app'.selected \in 0..(Len(app'.filtered_indices) - 1)
          /\ app'.loading_state = "Idle"]_vars

C11_Witness ==
    /\ pc = "loop"
    /\ app.status_message.text = "Refreshed from background"
    /\ app.loading_state = "Idle"
    /\ nchg = 1
    /\ Len(app.worktrees) = 3
    /\ app.worktrees[2].path = 3 /\ app.worktrees[2].commit_time = 4
    /\ app.selected = 2

\* C12: after a fetch result is applied, filtered_indices holds exactly the
\* indices of the new records that match the active search_query, in order
\* (every index when the query is empty).
C12_FilterRecomputedOnApply ==
    [][ResultApplied =>
          /\ \A k \in 0..(Len(app'.worktrees) - 1) :
                (\E i \in 1..Len(app'.filtered_indices) : app'.filtered_indices[i] = k)
                <=> MatchesQuery(app'.worktrees[k + 1], app'.search_query)
          /\ \A i \in 1..Len(app'.filtered_indices) : \A j \in (i + 1)..Len(app'.filtered_indices) :
                app'.filtered_indices[i] < app'.filtered_indices[j]]_vars

\* C13: when a fetch result is applied and the cache file is written, the file
\* holds an envelope for the repository root stamped with the current time;
\* load_cache for that root returns the records of the new collection, and a
\* process started less than CACHE_TTL_SECS later starts Idle on them.
C13_ApplyPersists ==
    [][ResultApplied =>
          /\ disk'.kind = "file"
          /\ disk'.repo_root = RepoRoot
          /\ disk'.timestamp = now
          /\ LET loaded == load_cache(disk', RepoRoot)
             IN  /\ loaded.kind = "file"
                 /\ loaded.worktrees = app'.worktrees
                 /\ \A t \in now..(now + CACHE_TTL_SECS - 1) : is_fresh(loaded, t)
                 /\ StartState(loaded, now + CACHE_TTL_SECS - 1)
                       = [worktrees |-> app'.worktrees, loading_state |-> "Idle"]]_vars

C13_Witness ==
    /\ pc = "loop"
    /\ app.status_message.text = "Refreshed from background"
    /\ disk.kind = "file" /\ disk.timestamp = now
    /\ Len(disk.worktrees) = 3
    /\ disk.worktrees = app.worktrees
    /\ \E i \in TaskIds : task[i] = "succeeded" /\ applied[i] = 1

MainCount(wts) == Cardinality({i \in 1..Len(wts) : wts[i].is_main})

\* C14: once App::new has returned, a non-empty worktrees has exactly one
\* record with is_main set, whether it came from the cache file, from a
\* background fetch or from a synchronous refresh.
C14_ExactlyOneMain ==
    (pc \in {"new", "loop"} /\ app.worktrees # <<>>) => MainCount(app.worktrees) = 1

\* C15: in every sort order, a collection with one main record has it first
\* once apply_sort has run, whatever the branches, status counts and commit
\* times of the other records.
C15_MainFirst ==
    (pc \in {"new", "loop"} /\ MainCount(app.worktrees) = 1) => app.worktrees[1].is_main

C15_Witness ==
    /\ pc = "loop"
    /\ app.sort_order = "Name"
    /\ app.status_message.text = "Sorted by name"
    /\ app.loading_state = "Idle"
    /\ Len(app.worktrees) = 3
    /\ app.worktrees[1].is_main
    /\ app.worktrees[2].branch = NoBranch
    /\ app.worktrees[2].commit_time = 2

UniquePaths(wts) ==
    \A i \in 1..Len(wts) : \A j \in 1..Len(wts) : wts[i].path = wts[j].path => i = j

\* C16: no two records of a collection a refresh has produced share a path:
\* neither in a fetch result on the channel nor in worktrees.
C16_PathsUnique ==
    /\ \A k \in 1..Len(chan) : UniquePaths(chan[k].worktrees)
    /\ pc \in {"new", "loop"} => UniquePaths(app.worktrees)

\* the detail fields of a record
Details(w) ==
    [status |-> w.status, commit_message |-> w.commit_message,
     commit_time |-> w.commit_time, recent_commits |-> w.recent_commits]

\* the indices of the returned records whose detail unit had a failing read
FailedUnits ==
    {k \in 1..Len(units.worktrees) :
        ~UnitSkipped(units.worktrees[k]) /\ units.fails[units.worktrees[k].path] # {}}

\* C17: when the detail unit of exactly one of the N enumerated worktrees
\* fails (the open or any of its queries), the fetch returns N records, the
\* failing one with default details and every other one that has a unit with
\* the details of its worktree.
C17_FailedUnitIsolated ==
    (units.phase = "returned" /\ Cardinality(FailedUnits) = 1) =>
        /\ Len(units.worktrees) = Len(BaseList(repo))
        /\ \A k \in 1..Len(units.worktrees) :
              IF k \in FailedUnits
              THEN Details(units.worktrees[k]) = DefaultDetails
              ELSE UnitSkipped(units.worktrees[k])
                   \/ Details(units.worktrees[k]) = UnitResult(repo, units.worktrees[k].path, {})

\* how many handles the spawn loop has pushed for the record at index k
HandlesOf(k) == Cardinality({h \in 1..Len(units.handles) : units.handles[h] = k})

\* the spawn loop has gone over every record
AllSpawned == units.phase \in {"running", "returned"} /\ units.next > Len(units.worktrees)

C20_UnitsJoinedOnce ==
    /\ \A k \in 1..Len(units.worktrees) :
          /\ units.writes[k] <= 1
          /\ units.writes[k] = 1 =>
                /\ units.unit[k] = "finished"
                /\ units.result[k] = UnitResult(repo, units.worktrees[k].path,
                                                units.fails[units.worktrees[k].path])
                /\ Details(units.worktrees[k]) = units.result[k]
          /\ units.writes[k] = 0 => Details(units.worktrees[k]) = DefaultDetails
    /\ units.phase = "returned" =>
          /\ \A k \in 1..Len(units.worktrees) :
                /\ units.unit[k] # "running"
                /\ units.unit[k] = "finished" => units.writes[k] = 1
          /\ units.worktrees = fetch_all_worktrees(repo, units.fails)
          /\ \A m \in 1..Len(chan) : chan[m].worktrees = fetch_all_worktrees(repo, units.fails)

C20_Witness ==
    /\ units.phase = "running"
    /\ Len(units.worktrees) = 3
    /\ units.unit = <<"running", "finished", "finished">>
    /\ units.handles = <<1, 2, 3>>
    /\ units.joined = 0

\* a background fetch ends without a result in this step
FetchFailed == \E i \in TaskIds : task[i] = "running" /\ task'[i] = "failed"

\* toggle_lock has run its git command and its refresh_worktrees call has
\* returned an error: the lock has changed and the status set before the
\* refresh has not been replaced by that of a finished refresh
SyncRefreshFailed ==
    /\ pc = "loop"
    /\ \E p \in Paths : repo'.wt[p].locked # repo.wt[p].locked
    /\ app'.status_message.text \in {"Locked worktree", "Unlocked worktree"}

\* C18: a refresh attempt that fails, in the background or synchronously,
\* leaves worktrees, filtered_indices and the selection as they were.
C18_FailedRefreshKeepsView ==
    [][(FetchFailed \/ SyncRefreshFailed) =>
          /\ app'.worktrees = app.worktrees
          /\ app'.filtered_indices = app.filtered_indices
          /\ app'.selected = app.selected]_vars

NoEnvelope(d) ==
    \/ d.kind \in {"absent", "unreadable", "corrupt"}
    \/ d.kind = "file" /\ d.repo_root # RepoRoot

\* C22: when the cache file is absent, unreadable, unparsable or for another
\* root, load_cache returns None and the process starts exactly as without a
\* cache file: Normal mode, an empty view, Loading, no status or error
\* message, and one fetch scheduled at the head of run_app.
C22_LoadNeverFails ==
    [][/\ (pc = "boot" /\ pc' = "new" /\ NoEnvelope(disk)) =>
             /\ load_cache(disk, RepoRoot) = NoCache
             /\ app' = NewApp(load_cache(NoCache, RepoRoot), now)
             /\ app'.worktrees = <<>> /\ app'.filtered_indices = <<>>
             /\ app'.loading_state = "Loading"
             /\ app'.mode = "Normal"
             /\ app'.status_message = NoStatus /\ app'.error_message = ""
       /\ (pc = "new" /\ pc' # "new" /\ NoEnvelope(disk)) =>
             /\ pc' = "loop"
             /\ app' = app
             /\ Scheduled' = 1 /\ Running' = 1]_vars

C22_Witness ==
    /\ pc = "loop"
    /\ disk.kind = "file" /\ disk.repo_root = OtherRoot /\ Len(disk.worktrees) = 2
    /\ app.worktrees = <<>> /\ app.loading_state = "Loading"
    /\ Running = 1 /\ chan = <<>>

\* C23: an envelope is fresh exactly when now - timestamp < CACHE_TTL_SECS:
\* written CACHE_TTL_SECS - 1 seconds ago it is fresh and the process starts
\* Idle, written CACHE_TTL_SECS or CACHE_TTL_SECS + 1 seconds ago it is stale
\* and the process starts Loading.
C23_FreshnessBoundary ==
    [][(pc = "boot" /\ pc' = "new" /\ ~NoEnvelope(disk)) =>
          /\ is_fresh(load_cache(disk, RepoRoot), now) <=> (now - disk.timestamp < CACHE_TTL_SECS)
          /\ app'.loading_state = IF now - disk.timestamp < CACHE_TTL_SECS THEN "Idle" ELSE "Loading"
          /\ disk.timestamp = now - (CACHE_TTL_SECS - 1) => app'.loading_state = "Idle"
          /\ disk.timestamp = now - CACHE_TTL_SECS => app'.loading_state = "Loading"
          /\ disk.timestamp = now - (CACHE_TTL_SECS + 1) => app'.loading_state = "Loading"]_vars

C23_Witness ==
    /\ pc = "loop"
    /\ ~NoEnvelope(disk)
    /\ disk.timestamp = now - (CACHE_TTL_SECS - 1)
    /\ Len(disk.worktrees) = 1
    /\ app.loading_state = "Idle"
    /\ Len(app.worktrees) = 1
    /\ Scheduled = 0

\* the step leaves a cache file other than the one a successful write of the
\* new collection gives
WriteFailed == disk' # save_to_cache(disk, app'.worktrees, now, "ok")

\* C24: when the cache write fails while a fetch result is applied, the step
\* still installs the received records in sort order, sets Idle and the
\* success status, leaves the mode and the error message alone and ends in
\* the next frame of the loop; the cache file is the old one or a truncated one.
C24_WriteIsBestEffort ==
    [][(ResultApplied /\ WriteFailed) =>
          /\ pc' = "loop"
          /\ SameRecords(app'.worktrees, Head(chan).worktrees)
          /\ Sorted(app'.sort_order, app'.worktrees)
          /\ app'.filtered_indices = SeqIndices(Len(app'.worktrees))
          /\ app'.loading_state = "Idle"
          /\ app'.status_message = [text |-> "Refreshed from background", level |-> "Success"]
          /\ app'.mode = app.mode
          /\ app'.error_message = app.error_message
          /\ disk' \in {disk, Corrupt}]_vars

C24_Witness ==
    /\ pc = "loop"
    /\ disk = Corrupt
    /\ \E i \in TaskIds : applied[i] = 1
    /\ Len(app.worktrees) = 3
    /\ app.loading_state = "Idle"
    /\ app.status_message.text = "Refreshed from background"
\* ------------------------------------------------------------------------
\* Mutations: failure and success
\* ------------------------------------------------------------------------

\* the view model of the list
ViewModel(a) ==
    [worktrees |-> a.worktrees, filtered_indices |-> a.filtered_indices,
     selected |-> a.selected, sort_order |-> a.sort_order,
     loading_state |-> a.loading_state]

\* the outcomes of a command that did not succeed; a mutation refused before
\* its command is run takes the same step whatever the outcome would be
FailedOutcomes(op) == GitOutcomes(op) \ {"ok"}

\* the step is the key of mutation op whose command came to out
FailedMutation(op, out) ==
    /\ MutationStep(op, out, [outcome |-> "ok", at |-> 0])
    /\ pc' # "panicked"

\* C25: a mutation that fails leaves worktrees, filtered_indices, the
\* selection, the sort order and loading_state as they were, starts no
\* background refresh and re-reads nothing: the repository, the cache file
\* and the refresh mark are unchanged too.
C25_FailedMutationKeepsView ==
    [][\A op \in MutationOps : \A out \in FailedOutcomes(op) :
          FailedMutation(op, out) =>
             /\ ViewModel(app') = ViewModel(app)
             /\ app'.last_refresh = app.last_refresh
             /\ task' = task /\ chan' = chan
             /\ repo' = repo /\ disk' = disk]_vars

\* a removal failed while the list was still loading: both records are
\* still listed and the second is still selected
C25_Witness ==
    /\ pc = "loop"
    /\ app.mode = "Error"
    /\ app.error_message = "Failed: remove"
    /\ app.loading_state = "Loading"
    /\ nchg = 1
    /\ Len(app.worktrees) = 2
    /\ app.selected = 1

\* the preconditions of mutation op hold, so that its command is run
CommandRuns(op) == Performed(op, app, repo, "ok", [outcome |-> "ok", at |-> 0]).ran

\* the failure of the step is shown: the status is a failure message and, at
\* error level, the Error dialog is open with that message
Surfaced(a) ==
    /\ a.status_message.level \in {"Error", "Warning"}
    /\ a.status_message.level = "Error" =>
          (a.mode = "Error" /\ a.error_message = a.status_message.text)

\* C26: when the command of a mutation fails or cannot be run, the key
\* handler returns with the failure message as the status message and, for
\* an error-level failure, with the app in Error mode showing that message.
C26_FailureSurfaced ==
    [][\A op \in MutationOps : \A out \in FailedOutcomes(op) :
          (FailedMutation(op, out) /\ CommandRuns(op)) =>
             (pc' = "loop" /\ Surfaced(app'))]_vars

\* the step is the key of mutation op whose command succeeded, the reads of
\* the refresh that follows coming to rd
SucceededMutation(op, rd) ==
    /\ MutationStep(op, "ok", rd)
    /\ pc' # "panicked"
    /\ CommandRuns(op)

\* the paths git lists for repository r: the main worktree, then the listing
Enumerated(r) == <<MainPath>> \o r.listing

\* record w shows the worktree at its path as it is in repository r
ShowsRepo(w, r) ==
    /\ ~w.is_main => w.is_locked = r.wt[w.path].locked
    /\ w.commit = r.wt[w.path].commit
    /\ w.branch = r.wt[w.path].branch
    /\ w.commit_message = r.wt[w.path].commit

Matching(a) ==
    {i \in 0..(Len(a.worktrees) - 1) : MatchesQuery(a.worktrees[i + 1], a.search_query)}

\* filtered_indices of a is Matching(a) in collection order
IsFilterOf(a) ==
    /\ {a.filtered_indices[k] : k \in 1..Len(a.filtered_indices)} = Matching(a)
    /\ \A k \in 1..(Len(a.filtered_indices) - 1) :
          a.filtered_indices[k] < a.filtered_indices[k + 1]

\* the step changes the search query
QueryChanged ==
    /\ pc = "loop"
    /\ pc' = "loop"
    /\ app'.search_query # app.search_query

\* C28: after every change of the search query, filtered_indices holds
\* exactly the indices of the records whose path, branch name or commit
\* summary contains the query without regard to case, in collection order.
C28_FilterFollowsQuery == [][QueryChanged => IsFilterOf(app')]_vars

\* the index in worktrees of the record selected in a, NoSel when there is
\* none
SelectedIndex(a) ==
    IF a.selected # NoSel /\ a.selected < Len(a.filtered_indices)
    THEN a.filtered_indices[a.selected + 1]
    ELSE NoSel

\* a key of the search bar changes the query while a record is selected
QueryChangedOnSelection ==
    /\ QueryChanged
    /\ app.mode = "Search"
    /\ SelectedIndex(app) # NoSel

\* C29: after a change of the search query, a selected record that is still
\* in the filtered set stays selected; when it is not, the selection goes to
\* the first filtered entry, or to none when the filtered set is empty.
C29_SelectionFollowsRecord ==
    [][QueryChangedOnSelection =>
          IF \E k \in 1..Len(app'.filtered_indices) :
                app'.filtered_indices[k] = SelectedIndex(app)
          THEN SelectedIndex(app') = SelectedIndex(app)
          ELSE app'.selected = (IF app'.filtered_indices = <<>> THEN NoSel ELSE 0)]_vars

\* a key of the search bar empties the query: Esc, Ctrl-u, or Backspace on
\* the last character
QueryCleared ==
    /\ pc = "loop"
    /\ app.mode = "Search"
    /\ app.search_query # <<>>
    /\ app'.search_query = <<>>

\* C30: clearing the search query, by Esc in Search mode, by Ctrl-u or by
\* deleting every character, brings every record back into the view, the
\* records in the order they had, and no key of the search bar changes the
\* sort order.
C30_ClearRestoresAll ==
    [][/\ QueryCleared =>
            /\ app'.filtered_indices = [i \in 1..Len(app'.worktrees) |-> i - 1]
            /\ app'.worktrees = app.worktrees
       /\ (pc = "loop" /\ app.mode = "Search" /\ pc' = "loop") =>
            app'.sort_order = app.sort_order]_vars

\* Esc has closed the search bar after three characters were typed: the
\* query is empty and the three records are in the view
C30_Witness ==
    /\ pc = "loop"
    /\ app.mode = "Normal"
    /\ app.search_query = <<>>
    /\ app.search_cursor = 3
    /\ Len(app.worktrees) = 3
    /\ app.filtered_indices = <<0, 1, 2>>

\* ------------------------------------------------------------------------
\* Sorting: the collection, the order by status, the selection
\* ------------------------------------------------------------------------

\* the step is the key 's': the sort order is cycled
SortCycled ==
    /\ pc = "loop"
    /\ app.mode = "Normal"
    /\ pc' # "boot"
    /\ app'.sort_order # app.sort_order

\* C31: sorting never reorders the underlying collection: cycling the sort
\* order leaves the worktrees collection in the order it had, the display
\* order being expressed by the index list alone.
C31_SortKeepsCollection == [][SortCycled => app'.worktrees = app.worktrees]_vars

\* a record is clean when the five counts of its status are all zero
AllCountsZero(st) ==
    st.modified = 0 /\ st.staged = 0 /\ st.untracked = 0 /\ st.ahead = 0 /\ st.behind = 0

\* among the records that are not the main worktree, no clean record comes
\* before a dirty one, and of two records equal in dirtiness the later one
\* has no smaller branch name
DirtyFirst(wts, Clean(_)) ==
    \A i, j \in 1..Len(wts) :
        (i < j /\ ~wts[i].is_main /\ ~wts[j].is_main) =>
            /\ ~(Clean(wts[i].status) /\ ~Clean(wts[j].status))
            /\ (Clean(wts[i].status) = Clean(wts[j].status)) =>
                  ~BranchLess(wts[j].branch, wts[i].branch)

Displayed(a, p) ==
    \E k \in 1..Len(a.filtered_indices) :
        /\ a.filtered_indices[k] < Len(a.worktrees)
        /\ a.worktrees[a.filtered_indices[k] + 1].path = p

\* C33: cycling the sort order keeps the selection on the same worktree: the
\* record selected before is, when still displayed, the record selected
\* afterwards, also when it has no branch and when a search filter is on.
C33_SortKeepsSelection ==
    [][(/\ SortCycled
        /\ selected_worktree(app) # NoWt
        /\ Displayed(app', selected_worktree(app).path)) =>
          (/\ selected_worktree(app') # NoWt
           /\ selected_worktree(app').path = selected_worktree(app).path)]_vars

\* ------------------------------------------------------------------------
\* The index list and the selection
\* ------------------------------------------------------------------------

\* a frame is drawn from the state: the loop has come round to terminal.draw
Rendered == pc \in {"loop", "panicked"}

\* C34: in every state from which a frame is drawn, every entry of
\* filtered_indices is an index into worktrees and no entry occurs twice.
C34_IndicesValid ==
    Rendered =>
       /\ \A k \in 1..Len(app.filtered_indices) :
             app.filtered_indices[k] >= 0 /\ app.filtered_indices[k] < Len(app.worktrees)
       /\ \A k, l \in 1..Len(app.filtered_indices) :
             app.filtered_indices[k] = app.filtered_indices[l] => k = l

\* C35: in every state of the loop the selection is consistent with the
\* filtered list: when filtered_indices is not empty the selection is a row
\* i with i < filtered_indices.len(), and when it is empty no record is
\* selected.
C35_SelectionConsistent ==
    pc = "loop" =>
       IF app.filtered_indices # <<>>
       THEN app.selected # NoSel /\ app.selected >= 0
            /\ app.selected < Len(app.filtered_indices)
       ELSE selected_worktree(app) = NoWt

\* ------------------------------------------------------------------------
\* Dialogs and the background result
\* ------------------------------------------------------------------------

\* the Delete dialog is open before and after the step
DeleteDialogStays ==
    /\ pc = "loop"
    /\ pc' = "loop"
    /\ app.mode = "Delete"
    /\ app'.mode = "Delete"

\* C36: the worktree that confirming the Delete dialog removes, the selected
\* one, is the worktree that was selected when the dialog was opened: while
\* the dialog is open the selected worktree stays the same, also when a
\* background result is applied.
C36_DeleteTargetStable ==
    [][DeleteDialogStays =>
          (/\ selected_worktree(app') # NoWt
           /\ selected_worktree(app').path = selected_worktree(app).path)]_vars

\* the merge-target dialog is open before and after the step, its source
\* index being within the collection before
MergeDialogStays ==
    /\ pc = "loop"
    /\ pc' = "loop"
    /\ app.mode = "MergeSelect"
    /\ app'.mode = "MergeSelect"
    /\ app.merge_source_idx # NoSel
    /\ app.merge_source_idx < Len(app.worktrees)

\* C37: while the merge-target dialog is open, merge_source_idx stays an
\* index into worktrees and stays on the worktree that was selected when 'm'
\* was pressed, also when a background result replaces or reorders the
\* collection, so that perform_merge indexes within bounds.
C37_MergeSourceStable ==
    [][MergeDialogStays =>
          (/\ app'.merge_source_idx # NoSel
           /\ app'.merge_source_idx < Len(app'.worktrees)
           /\ app'.worktrees[app'.merge_source_idx + 1].path
                 = app.worktrees[app.merge_source_idx + 1].path)]_vars

\* the paths of the records wts, and the paths git lists for repository r
ListedPaths(wts) == {wts[i].path : i \in 1..Len(wts)}

RepoPaths(r) == {Enumerated(r)[i] : i \in 1..Len(Enumerated(r))}

\* C38: the displayed collection and the cache file never go back to older
\* data: when they list the worktrees of the repository as a synchronous
\* refresh after a mutation left them, applying a background result, which
\* may have been enumerated before that refresh, leaves them listing the
\* worktrees of the repository.
C38_NoRegression ==
    [][(/\ ResultApplied
        /\ app.last_refresh = "refresh"
        /\ ListedPaths(app.worktrees) = RepoPaths(repo)
        /\ ListedPaths(disk.worktrees) = RepoPaths(repo)) =>
          (/\ ListedPaths(app'.worktrees) = RepoPaths(repo')
           /\ ListedPaths(disk'.worktrees) = RepoPaths(repo'))]_vars

\* ------------------------------------------------------------------------
\* The end of the loop, and the main worktree
\* ------------------------------------------------------------------------

\* C39: the loop ends only when the user quits: a refresh that fails after a
\* successful mutation does not make run_app return, the loop goes on.
C39_RefreshFailureAbsorbed ==
    [][nchg' # nchg => \A op \in MutationOps : \A rd \in AnyReadOutcomes :
          SucceededMutation(op, rd) => pc' = "loop"]_vars

\* the step is y or Enter in the Delete dialog with the main worktree
\* selected
MainDeleteConfirmed ==
    /\ pc = "loop"
    /\ app.mode = "Delete"
    /\ nchg' # nchg
    /\ selected_worktree(app) # NoWt
    /\ selected_worktree(app).is_main

\* C40: the main worktree is never deleted: confirming the Delete dialog
\* with a record selected whose is_main is true runs no command, leaves the
\* collection, the repository and the cache file unchanged and reports the
\* error 'Cannot delete main worktree'.
C40_MainNeverDeleted ==
    [][MainDeleteConfirmed =>
          (/\ repo' = repo
           /\ disk' = disk
           /\ ViewModel(app') = ViewModel(app)
           /\ app'.status_message = [text |-> "Cannot delete main worktree", level |-> "Error"]
           /\ app'.mode = "Error"
           /\ app'.error_message = "Cannot delete main worktree"
           /\ pc' = "loop")]_vars

\* the Delete dialog was confirmed on the main worktree: the error is shown
\* and the main worktree is still there and still listed
C40_Witness ==
    /\ pc = "loop"
    /\ nchg = 1
    /\ app.mode = "Error"
    /\ app.error_message = "Cannot delete main worktree"
    /\ selected_worktree(app) # NoWt
    /\ selected_worktree(app).is_main
    /\ repo.wt[MainPath].exists

====
